---------------------------- MODULE Spec2Model ----------------------------
(***************************************************************************)
(* A model of the MCRAW container reader (motioncam::Decoder) and of the   *)
(* raw pixel codec (motioncam::raw::Decode).                               *)
(*                                                                         *)
(* The repository holds two sources of the Decoder class                   *)
(* (src/lib/Decoder.cpp and src/unnamed/part_002) and two sources of the   *)
(* codec (src/lib/RawData.cpp and the second half of src/lib/Decoder.cpp). *)
(* The variable `build` selects the Decoder source and `codec` the codec   *)
(* source; both are fixed when a behaviour starts.                         *)
(*                                                                         *)
(* The file is a sequence of cells.  Every fixed-size structure (Header,   *)
(* Item, BufferIndex, BufferOffset, AudioIndex, AudioMetadata) and every   *)
(* JSON document occupies one cell; every payload byte occupies one cell.  *)
(* File offsets and Item.size count cells.                                 *)
(***************************************************************************)
EXTENDS Integers, Sequences, FiniteSets, TLC

(***************************************************************************)
(* Bounds of the model                                                     *)
(***************************************************************************)
MaxFrames == 2
MaxCalls == 2

(***************************************************************************)
(* Program constants                                                       *)
(***************************************************************************)
ENCODING_BLOCK == 64
HEADER_LENGTH == 2
METADATA_OFFSET == 16
MOTIONCAM_COMPRESSION_TYPE == 7
CONTAINER_VERSION == 2

\* The values an indeterminate byte or sample can take (a read outside a
\* buffer, a read of an uninitialised stack array).
Junk == {0, 255}

(***************************************************************************)
(* 16-bit lane arithmetic of the block decoders                            *)
(***************************************************************************)
RECURSIVE BitAndN(_, _, _)
BitAndN(a, b, n) ==
    IF n = 0 THEN 0
    ELSE (IF a % 2 = 1 /\ b % 2 = 1 THEN 1 ELSE 0)
         + 2 * BitAndN(a \div 2, b \div 2, n - 1)

RECURSIVE BitOrN(_, _, _)
BitOrN(a, b, n) ==
    IF n = 0 THEN 0
    ELSE (IF a % 2 = 1 \/ b % 2 = 1 THEN 1 ELSE 0)
         + 2 * BitOrN(a \div 2, b \div 2, n - 1)

And16(a, b) == BitAndN(a, b, 16)
Or16(a, b) == BitOrN(a, b, 16)
Shl16(a, n) == (a * (2 ^ n)) % 65536
Shr16(a, n) == a \div (2 ^ n)
Add16(a, b) == (a + b) % 65536

\* Byte i (0-based) of a buffer; a read at or past the end of the buffer is
\* undefined and yields the indeterminate value j.
ByteAt(input, i, j) ==
    IF i >= 0 /\ i < Len(input) THEN input[i + 1] ELSE j

\* Load: 8 bytes starting at byte `at`, zero-extended to 16-bit lanes.
Load(input, at, j) == [i \in 0..7 |-> ByteAt(input, at + i, j)]

\* Store of eight rows of eight lanes at output, output+8, ... output+56.
Store8(rows) == [k \in 1..ENCODING_BLOCK |-> rows[((k - 1) \div 8) + 1][(k - 1) % 8]]

Lanes(F(_)) == [i \in 0..7 |-> F(i)]

\* The element of a one-element set; Only({e(x) : x \in {v}}) is e with x
\* bound to the value v.
Only(S) == CHOOSE e \in S : TRUE

(***************************************************************************)
(* The block decoders.  input is the byte buffer, at the 0-based byte      *)
(* offset of the block, j the indeterminate value of an out-of-range read. *)
(***************************************************************************)
Decode1(input, at, j) ==
    LET p == Load(input, at, j)
        r(n) == Lanes(LAMBDA i : Shr16(And16(p[i], Shl16(1, n)), n))
    IN  Store8(<<r(0), r(1), r(2), r(3), r(4), r(5), r(6), r(7)>>)

Decode2_One(input, at, j) ==
    LET p == Load(input, at, j)
        r(n) == Lanes(LAMBDA i : Shr16(And16(p[i], Shl16(3, 2 * n)), 2 * n))
    IN  <<r(0), r(1), r(2), r(3)>>

Decode2(input, at, j) ==
    Store8(Decode2_One(input, at, j) \o Decode2_One(input, at + 8, j))

Decode3(input, at, j) ==
    LET p0 == Load(input, at, j)
        p1 == Load(input, at + 8, j)
        p2 == Load(input, at + 16, j)
        r0 == Lanes(LAMBDA i : And16(p0[i], 7))
        r1 == Lanes(LAMBDA i : Shr16(And16(p0[i], Shl16(7, 3)), 3))
        u2 == Lanes(LAMBDA i : Shr16(And16(p0[i], Shl16(3, 6)), 6))
        r3 == Lanes(LAMBDA i : And16(p1[i], 7))
        r4 == Lanes(LAMBDA i : Shr16(And16(p1[i], Shl16(7, 3)), 3))
        u5 == Lanes(LAMBDA i : Shr16(And16(p1[i], Shl16(3, 6)), 6))
        r6 == Lanes(LAMBDA i : And16(p2[i], 7))
        r7 == Lanes(LAMBDA i : Shr16(And16(p2[i], Shl16(7, 3)), 3))
        r2 == Lanes(LAMBDA i : Or16(u2[i], Shl16(And16(Shr16(p2[i], 6), 1), 2)))
        r5 == Lanes(LAMBDA i : Or16(u5[i], Shl16(And16(Shr16(p2[i], 7), 1), 2)))
    IN  Store8(<<r0, r1, r2, r3, r4, r5, r6, r7>>)

Decode4_One(input, at, j) ==
    LET p == Load(input, at, j)
        r0 == Lanes(LAMBDA i : And16(p[i], 15))
        r1 == Lanes(LAMBDA i : Shr16(And16(p[i], Shl16(15, 4)), 4))
    IN  <<r0, r1>>

Decode4(input, at, j) ==
    Store8(Decode4_One(input, at, j) \o Decode4_One(input, at + 8, j)
           \o Decode4_One(input, at + 16, j) \o Decode4_One(input, at + 24, j))

Decode5(input, at, j) ==
    LET p0 == Load(input, at, j)
        p1 == Load(input, at + 8, j)
        p2 == Load(input, at + 16, j)
        p3 == Load(input, at + 24, j)
        p4 == Load(input, at + 32, j)
        r0 == Lanes(LAMBDA i : And16(p0[i], 31))
        r1 == Lanes(LAMBDA i : And16(p1[i], 31))
        r2 == Lanes(LAMBDA i : And16(p2[i], 31))
        r3 == Lanes(LAMBDA i : And16(p3[i], 31))
        r4 == Lanes(LAMBDA i : And16(p4[i], 31))
        r5 == Lanes(LAMBDA i : Or16(And16(Shr16(p0[i], 5), 7),
                                    Shl16(And16(Shr16(p3[i], 5), 3), 3)))
        r6 == Lanes(LAMBDA i : Or16(And16(Shr16(p1[i], 5), 7),
                                    Shl16(And16(Shr16(p4[i], 5), 3), 3)))
        tmp0 == Lanes(LAMBDA i : And16(Shr16(p2[i], 5), 7))
        tmp1 == Lanes(LAMBDA i : Or16(tmp0[i], Shl16(And16(Shr16(p3[i], 7), 1), 3)))
        r7 == Lanes(LAMBDA i : Or16(tmp1[i], Shl16(And16(Shr16(p4[i], 7), 1), 4)))
    IN  Store8(<<r0, r1, r2, r3, r4, r5, r6, r7>>)

Decode6(input, at, j) ==
    LET p0 == Load(input, at, j)
        p1 == Load(input, at + 8, j)
        p2 == Load(input, at + 16, j)
        p3 == Load(input, at + 24, j)
        p4 == Load(input, at + 32, j)
        p5 == Load(input, at + 40, j)
        r0 == Lanes(LAMBDA i : And16(p0[i], 63))
        r1 == Lanes(LAMBDA i : And16(p1[i], 63))
        r2 == Lanes(LAMBDA i : And16(p2[i], 63))
        r3 == Lanes(LAMBDA i : And16(p3[i], 63))
        r4 == Lanes(LAMBDA i : And16(p4[i], 63))
        r5 == Lanes(LAMBDA i : And16(p5[i], 63))
        r6 == Lanes(LAMBDA i :
                 Or16(Or16(Or16(And16(Shr16(p0[i], 6), 3),
                                Shl16(And16(Shr16(p1[i], 6), 3), 2)),
                           Shl16(And16(Shr16(p1[i], 6), 3), 2)),
                      Shl16(And16(Shr16(p2[i], 6), 3), 4)))
        r7 == Lanes(LAMBDA i :
                 Or16(Or16(And16(Shr16(p3[i], 6), 3),
                           Shl16(And16(Shr16(p4[i], 6), 3), 2)),
                      Shl16(And16(Shr16(p5[i], 6), 3), 4)))
    IN  Store8(<<r0, r1, r2, r3, r4, r5, r6, r7>>)

Decode8_One(input, at, j) == <<Load(input, at, j)>>

Decode8(input, at, j) ==
    Store8(Decode8_One(input, at, j) \o Decode8_One(input, at + 8, j)
           \o Decode8_One(input, at + 16, j) \o Decode8_One(input, at + 24, j)
           \o Decode8_One(input, at + 32, j) \o Decode8_One(input, at + 40, j)
           \o Decode8_One(input, at + 48, j) \o Decode8_One(input, at + 56, j))

Decode10(input, at, j) ==
    LET p(n) == Load(input, at + 8 * n, j)
        lo(n, hi, k) ==
            Lanes(LAMBDA i : Or16(And16(p(n)[i], 255),
                                  Shl16(And16(p(hi)[i], Shl16(3, 2 * k)), 8 - 2 * k)))
    IN  Store8(<<lo(0, 4, 0), lo(1, 4, 1), lo(2, 4, 2), lo(3, 4, 3),
                 lo(5, 9, 0), lo(6, 9, 1), lo(7, 9, 2), lo(8, 9, 3)>>)

\* input16[i] on a little-endian host.
Decode16_ONE(input, at, j) ==
    <<Lanes(LAMBDA i : ByteAt(input, at + 2 * i, j)
                       + 256 * ByteAt(input, at + 2 * i + 1, j))>>

Decode16(input, at, j) ==
    Store8(Decode16_ONE(input, at, j) \o Decode16_ONE(input, at + 16, j)
           \o Decode16_ONE(input, at + 32, j) \o Decode16_ONE(input, at + 48, j)
           \o Decode16_ONE(input, at + 64, j) \o Decode16_ONE(input, at + 80, j)
           \o Decode16_ONE(input, at + 96, j) \o Decode16_ONE(input, at + 112, j))

\* Bytes read from the input by the decoder that DecodeBlock selects.
BytesRead(bits) ==
    CASE bits = 0 -> 0
      [] bits = 1 -> 8
      [] bits = 2 -> 16
      [] bits = 3 -> 24
      [] bits = 4 -> 32
      [] bits = 5 -> 40
      [] bits = 6 -> 48
      [] bits \in {7, 8} -> 64
      [] bits \in {9, 10} -> 80
      [] OTHER -> 128

(***************************************************************************)
(* DecodeBlock, DecodeMetadata, ReadMetadataHeader and raw::Decode.        *)
(* codec = "RawData" is src/lib/RawData.cpp, codec = "Decoder" is the      *)
(* codec in src/lib/Decoder.cpp; they differ in ENCODING_BLOCK_LENGTH.     *)
(***************************************************************************)
Codecs == {"RawData", "Decoder"}

ENCODING_BLOCK_LENGTH_RawData ==
    <<0, 8, 16, 24, 32, 40, 48, 64, 64, 80, 80, 128, 128, 128, 128, 128, 128>>

ENCODING_BLOCK_LENGTH_Decoder ==
    <<0, 8, 8, 24, 8, 40, 48, 0, 8, 0, 80, 0>>

BlockLengthTable(codec) ==
    IF codec = "RawData" THEN ENCODING_BLOCK_LENGTH_RawData
    ELSE ENCODING_BLOCK_LENGTH_Decoder

\* ENCODING_BLOCK_LENGTH[bits]; an index past the end of the array is an
\* out-of-range read and yields the indeterminate value j.
ENCODING_BLOCK_LENGTH(codec, bits, j) ==
    IF bits + 1 <= Len(BlockLengthTable(codec))
    THEN BlockLengthTable(codec)[bits + 1]
    ELSE j

\* The 64 values the selected decoder stores.
DecodeSwitch(bits, input, at, j) ==
    CASE bits = 0 -> [k \in 1..ENCODING_BLOCK |-> 0]
      [] bits = 1 -> Decode1(input, at, j)
      [] bits = 2 -> Decode2(input, at, j)
      [] bits = 3 -> Decode3(input, at, j)
      [] bits = 4 -> Decode4(input, at, j)
      [] bits = 5 -> Decode5(input, at, j)
      [] bits = 6 -> Decode6(input, at, j)
      [] bits \in {7, 8} -> Decode8(input, at, j)
      [] bits \in {9, 10} -> Decode10(input, at, j)
      [] OTHER -> Decode16(input, at, j)

\* ret is the returned byte count (len - offset is computed in size_t; when
\* offset > len it wraps, and the caller's offset += ret wraps back to len,
\* which the signed difference models).  output is the 64-element block
\* after the call, ub tells that the call read outside the table or input,
\* oob that it read an input byte at an index >= len, offset is the offset
\* the call was given.
DecodeBlock(codec, output, bits, input, offset, len, j) ==
    LET L == ENCODING_BLOCK_LENGTH(codec, bits, j)
        tableOob == bits + 1 > Len(BlockLengthTable(codec))
    IN  IF offset + L > len
        THEN [ret |-> len - offset, output |-> output, ub |-> tableOob,
              oob |-> FALSE, truncated |-> TRUE, offset |-> offset]
        ELSE [ret |-> L, output |-> DecodeSwitch(bits, input, offset, j),
              ub |-> tableOob \/ offset + BytesRead(bits) > len,
              oob |-> BytesRead(bits) > 0 /\ offset + BytesRead(bits) > len,
              truncated |-> FALSE, offset |-> offset]

\* Four little-endian bytes at byte offset `at`.  When a byte lies outside
\* the buffer the whole value is indeterminate (j).
U32At(input, at, j) ==
    IF at + 3 < Len(input)
    THEN input[at + 1] + 256 * input[at + 2] + 65536 * input[at + 3]
         + 16777216 * input[at + 4]
    ELSE j

DecodeHeader(input, at, j) ==
    [bits |-> And16(Shr16(ByteAt(input, at, j), 4), 15),
     reference |-> Or16(Shl16(And16(ByteAt(input, at, j), 15), 8),
                        ByteAt(input, at + 1, j))]

\* The loop of DecodeMetadata from group g on.  acc is the data written so
\* far (64 values per group); elements at index >= numBlocks lie outside the
\* vector and start indeterminate.  fl = [ub, oob, over]: undefined
\* behaviour so far, an input byte at an index >= len read so far, the
\* offset above len at some point so far.
RECURSIVE MetadataLoop(_, _, _, _, _, _, _, _, _)
MetadataLoop(codec, input, len, j, numBlocks, g, offset, acc, fl) ==
    IF g * ENCODING_BLOCK >= numBlocks
    THEN [offset |-> offset, data |-> acc, ub |-> fl.ub, oob |-> fl.oob,
          over |-> fl.over]
    ELSE Only({Only({Only({Only({
             MetadataLoop(codec, input, len, j, numBlocks, g + 1,
                          offset + HEADER_LENGTH + d.ret, acc \o blk,
                          [ub |-> fl.ub \/ d.ub \/ offset + 1 >= len,
                           oob |-> fl.oob \/ d.oob \/ offset + 1 >= len,
                           over |-> fl.over \/ offset + HEADER_LENGTH > len
                                    \/ offset + HEADER_LENGTH + d.ret > len]) :
         blk \in {[k \in 1..ENCODING_BLOCK |-> Add16(d.output[k], h.reference)]}}) :
         d \in {DecodeBlock(codec, old, h.bits, input, offset + HEADER_LENGTH, len, j)}}) :
         old \in {[k \in 1..ENCODING_BLOCK |->
                    IF g * ENCODING_BLOCK + k - 1 < numBlocks THEN 0 ELSE j]}}) :
         h \in {DecodeHeader(input, offset, j)}})

\* size is the size of outMetadata (numBlocks); data holds every element
\* the loop wrote, 64 per group, so Len(data) > size is a write past the end
\* of the vector.
DecodeMetadata(codec, input, offset, len, j) ==
    Only({Only({
        [offset |-> r.offset, size |-> numBlocks, data |-> r.data,
         ub |-> r.ub \/ Len(r.data) > numBlocks, oob |-> r.oob, over |-> r.over] :
    r \in {MetadataLoop(codec, input, len, j, numBlocks, 0, offset + 4, <<>>,
                        [ub |-> offset + 3 >= len, oob |-> offset + 3 >= len,
                         over |-> offset > len \/ offset + 4 > len])}}) :
    numBlocks \in {U32At(input, offset, j)}})

\* v[idx] of a decoded metadata vector; idx >= size is an out-of-range read.
MetadataAt(m, idx, j) == IF idx < m.size THEN m.data[idx + 1] ELSE j

ReadMetadataHeader(input, j) ==
    [encodedWidth |-> U32At(input, 0, j),
     encodedHeight |-> U32At(input, 4, j),
     bitsOffset |-> U32At(input, 8, j),
     refsOffset |-> U32At(input, 12, j)]

\* TileRows with row1 and row2 taken from the wrong blocks: the four rows
\* are the two halves of p0/p1 followed by the two halves of p2/p3.
TileRows_halvesInOrder(p, ref) ==
    LET px(a, b, half, c) ==
            IF c % 2 = 0
            THEN Add16(p[a][half + (c \div 2) + 1], ref[a])
            ELSE Add16(p[b][half + (c \div 2) + 1], ref[b])
    IN  <<[c \in 0..(ENCODING_BLOCK - 1) |-> px(1, 2, 0, c)],
          [c \in 0..(ENCODING_BLOCK - 1) |-> px(1, 2, ENCODING_BLOCK \div 2, c)],
          [c \in 0..(ENCODING_BLOCK - 1) |-> px(3, 4, 0, c)],
          [c \in 0..(ENCODING_BLOCK - 1) |-> px(3, 4, ENCODING_BLOCK \div 2, c)]>>

\* One 64-column piece of row0..row3 from the four decoded blocks.
TileRows(p, ref) ==
    LET px(a, b, half, c) ==
            IF c % 2 = 0
            THEN Add16(p[a][half + (c \div 2) + 1], ref[a])
            ELSE Add16(p[b][half + (c \div 2) + 1], ref[b])
    IN  <<[c \in 0..(ENCODING_BLOCK - 1) |-> px(1, 2, 0, c)],
          [c \in 0..(ENCODING_BLOCK - 1) |-> px(3, 4, 0, c)],
          [c \in 0..(ENCODING_BLOCK - 1) |-> px(1, 2, ENCODING_BLOCK \div 2, c)],
          [c \in 0..(ENCODING_BLOCK - 1) |-> px(3, 4, ENCODING_BLOCK \div 2, c)]>>

\* metadataIdx += 4 with every tile a single entry forward only.
NextMetadataIdx_one(metadataIdx) == metadataIdx + 1

\* metadataIdx += 4 at the end of the x loop body.
NextMetadataIdx(metadataIdx) == metadataIdx + 4

\* The body of the x loop for one tile: four DecodeBlock calls in sequence.
\* st = [offset, p, init, metadataIdx, ub, oob, over, tiles]; init[k] tells
\* whether block array pk has been written since Decode started, oob whether
\* an input byte at an index >= len has been read, over whether offset has
\* been above len; tiles is the history of the tiles decoded so far: the
\* index of each one's first metadata entry, the blockBits and blockRef it
\* read, its four blocks and the offsets before and after each block.
DecodeTile(codec, input, len, j, bits, refs, st) ==
    LET b(k) == MetadataAt(bits, st.metadataIdx + k, j) IN
    Only({Only({Only({Only({Only({Only({Only({
        [offset |-> d3.offset + d3.ret, p |-> p, init |-> init,
         metadataIdx |-> NextMetadataIdx(st.metadataIdx),
         ub |-> st.ub \/ d0.ub \/ d1.ub \/ d2.ub \/ d3.ub
                \/ st.metadataIdx + 3 >= bits.size
                \/ st.metadataIdx + 3 >= refs.size
                \/ ~(init[1] /\ init[2] /\ init[3] /\ init[4]),
         oob |-> st.oob \/ d0.oob \/ d1.oob \/ d2.oob \/ d3.oob,
         over |-> st.over \/ d0.offset > len \/ d1.offset > len \/ d2.offset > len
                  \/ d3.offset > len \/ d3.offset + d3.ret > len,
         tiles |-> Append(st.tiles,
                     [metadataIdx |-> st.metadataIdx,
                      blockBits |-> <<b(0), b(1), b(2), b(3)>>,
                      blockRef |-> ref, p |-> p,
                      offsets |-> <<d0.offset, d1.offset, d2.offset, d3.offset,
                                    d3.offset + d3.ret>>]),
         rows |-> TileRows(p, ref)] :
    p \in {<<d0.output, d1.output, d2.output, d3.output>>}}) :
    init \in {<<st.init[1] \/ ~d0.truncated, st.init[2] \/ ~d1.truncated,
                st.init[3] \/ ~d2.truncated, st.init[4] \/ ~d3.truncated>>}}) :
    d3 \in {DecodeBlock(codec, st.p[4], b(3), input, d2.offset + d2.ret, len, j)}}) :
    d2 \in {DecodeBlock(codec, st.p[3], b(2), input, d1.offset + d1.ret, len, j)}}) :
    d1 \in {DecodeBlock(codec, st.p[2], b(1), input, d0.offset + d0.ret, len, j)}}) :
    d0 \in {DecodeBlock(codec, st.p[1], b(0), input, st.offset, len, j)}}) :
    ref \in {[k \in 1..4 |-> MetadataAt(refs, st.metadataIdx + k - 1, j)]}})

\* The x loop of one tile row: tiles tx .. tileCols-1, left to right.
RECURSIVE TileRowLoop(_, _, _, _, _, _, _, _, _, _)
TileRowLoop(codec, input, len, j, bits, refs, tx, tileCols, st, rows) ==
    IF tx >= tileCols THEN [st |-> st, rows |-> rows]
    ELSE Only({
         LET piece(r) == [c \in 1..ENCODING_BLOCK |-> t.rows[r][c - 1]]
         IN  TileRowLoop(codec, input, len, j, bits, refs, tx + 1, tileCols,
                         [offset |-> t.offset, p |-> t.p, init |-> t.init,
                          metadataIdx |-> t.metadataIdx, ub |-> t.ub,
                          oob |-> t.oob, over |-> t.over, tiles |-> t.tiles],
                         <<rows[1] \o piece(1), rows[2] \o piece(2),
                           rows[3] \o piece(3), rows[4] \o piece(4)>>) :
         t \in {DecodeTile(codec, input, len, j, bits, refs, st)}})

\* The first n elements of a row buffer (memcpy of n samples).
Memcpy(row, n) == SubSeq(row, 1, n)

\* The y loop: tile rows ty .. tileRows-1; out is what has been written to
\* output so far, in the order of the output pointer.
RECURSIVE TileLoop(_, _, _, _, _, _, _, _, _, _, _, _)
TileLoop(codec, input, len, j, bits, refs, width, ty, tileRows, tileCols, st, out) ==
    IF ty >= tileRows THEN [st |-> st, out |-> out]
    ELSE Only({
             TileLoop(codec, input, len, j, bits, refs, width, ty + 1, tileRows,
                      tileCols, r.st,
                      out \o Memcpy(r.rows[1], width) \o Memcpy(r.rows[2], width)
                          \o Memcpy(r.rows[3], width) \o Memcpy(r.rows[4], width)) :
         r \in {TileRowLoop(codec, input, len, j, bits, refs, 0, tileCols, st,
                            <<<<>>, <<>>, <<>>, <<>>>>)}})

\* A decoded metadata vector nothing was decoded into.
NoMetadata == [offset |-> 0, size |-> 0, data |-> <<>>, ub |-> FALSE,
               oob |-> FALSE, over |-> FALSE]

\* The result of a Decode call that takes an error return; a payload
\* shorter than the 16-byte header was read past its end.
DecodeError(len) ==
    [ret |-> 0, written |-> <<>>, ub |-> len < METADATA_OFFSET, error |-> TRUE,
     oob |-> len < METADATA_OFFSET, over |-> FALSE, tiles |-> <<>>,
     bits |-> NoMetadata, refs |-> NoMetadata,
     header |-> [encodedWidth |-> 0, encodedHeight |-> 0, bitsOffset |-> 0,
                 refsOffset |-> 0]]

\* The checks of Decode without the one on the multiple of ENCODING_BLOCK.
DecodeRejects_anyWidth(h, width, len) ==
    \/ h.bitsOffset > len
    \/ h.refsOffset > len
    \/ width < 0
    \/ h.encodedWidth < width

\* The checks of Decode before it decodes.  encodedWidth is a uint32_t and
\* width an int: the comparison converts a negative width to a value above
\* every encodedWidth.
DecodeRejects(h, width, len) ==
    \/ h.bitsOffset > len
    \/ h.refsOffset > len
    \/ h.encodedWidth % ENCODING_BLOCK > 0
    \/ width < 0
    \/ h.encodedWidth < width

\* raw::Decode(output, width, height, input, len).  written is the sequence
\* of samples stored through the output pointer, from output[0] on; ret is
\* output - outputStart.  height is a parameter the code never reads.  The
\* result also carries the header read, the two decoded metadata vectors and
\* the history of the tiles.
Decode(codec, width, height, input, len, j) ==
    Only({
        IF DecodeRejects(h, width, len) THEN DecodeError(len)
        ELSE Only({Only({Only({Only({
            [ret |-> Len(r.out), written |-> r.out, ub |-> r.st.ub,
             error |-> FALSE, oob |-> r.st.oob, over |-> r.st.over,
             tiles |-> r.st.tiles, bits |-> bits, refs |-> refs,
             header |-> h] :
        r \in {TileLoop(codec, input, len, j, bits, refs, width, 0,
                        (h.encodedHeight + 3) \div 4,
                        (h.encodedWidth + ENCODING_BLOCK - 1) \div ENCODING_BLOCK,
                        [offset |-> METADATA_OFFSET, p |-> <<p0, p0, p0, p0>>,
                         init |-> <<FALSE, FALSE, FALSE, FALSE>>,
                         metadataIdx |-> 0,
                         ub |-> bits.ub \/ refs.ub \/ len < METADATA_OFFSET,
                         oob |-> bits.oob \/ refs.oob \/ len < METADATA_OFFSET,
                         over |-> bits.over \/ refs.over,
                         tiles |-> <<>>],
                        <<>>)}}) :
        p0 \in {[k \in 1..ENCODING_BLOCK |-> j]}}) :
        refs \in {DecodeMetadata(codec, input, h.refsOffset, len, j)}}) :
        bits \in {DecodeMetadata(codec, input, h.bitsOffset, len, j)}}) :
    h \in {ReadMetadataHeader(input, j)}})

(***************************************************************************)
(* Frame payloads of the input files.  A payload is the 16-byte header,    *)
(* `pix` bytes of pixel stream at offset 16, then the bits stream and the  *)
(* refs stream.  Both streams hold `nb` values in groups of 64, each group *)
(* coded with block bits 0 and the value as reference.                     *)
(***************************************************************************)
LE32(v) == <<v % 256, (v \div 256) % 256, (v \div 65536) % 256, 0>>

PixelByte(i) == (7 * i + 3) % 256

\* Pixel byte i (from 1) of a stream whose 64-byte blocks each hold the
\* bytes 0x00..0x3F.
RampByte(i) == (i - 1) % ENCODING_BLOCK

RECURSIVE MetaGroups(_, _)
MetaGroups(n, v) ==
    IF n = 0 THEN <<>> ELSE <<v \div 256, v % 256>> \o MetaGroups(n - 1, v)

MetaStream(nb, v) ==
    LE32(nb) \o MetaGroups((nb + ENCODING_BLOCK - 1) \div ENCODING_BLOCK, v)

\* Byte i (from 1) of the packed block of a metadata group.
MetaByte(i) == (37 * i + 11) % 256

\* A metadata stream of one group of nb <= 64 values: a header with the
\* given bits and reference, then the packed block of n bytes.
VariedStream(nb, bits, reference, n) ==
    LE32(nb) \o <<bits * 16 + reference \div 256, reference % 256>>
             \o [i \in 1..n |-> MetaByte(i)]

\* c = [ew, eh, bits, ref, pix, nb, off, roff, ramp, varied]: encoded width
\* and height, the bits value and reference of every block, the pixel stream
\* length, the value count of the two streams, how far bits_offset and
\* refs_offset point past the start of their streams, whether the pixel
\* stream is the ramp of RampByte, and whether the two streams are packed
\* groups whose values differ from entry to entry (bits values 1..4 from a
\* 2-bit group with reference 1, references from a 4-bit group with
\* reference c.ref) instead of c.bits and c.ref throughout.
MkPayload(c) ==
    LET pixel == [i \in 1..c.pix |-> IF c.ramp THEN RampByte(i) ELSE PixelByte(i)]
        bitsStream == IF c.varied THEN VariedStream(c.nb, 2, 1, 16)
                      ELSE MetaStream(c.nb, c.bits)
        refsStream == IF c.varied THEN VariedStream(c.nb, 4, c.ref, 32)
                      ELSE MetaStream(c.nb, c.ref)
        bitsOffset == METADATA_OFFSET + c.pix
        refsOffset == bitsOffset + Len(bitsStream)
    IN  LE32(c.ew) \o LE32(c.eh) \o LE32(bitsOffset + c.off)
        \o LE32(refsOffset + c.roff) \o pixel \o bitsStream \o refsStream

(***************************************************************************)
(* The container file                                                      *)
(***************************************************************************)
Cell(k, t, a, b, c) == [k |-> k, t |-> t, a |-> a, b |-> b, c |-> c]

HeaderCell(version, identOk) == Cell("Header", "", version, IF identOk THEN 1 ELSE 0, 0)
ItemCell(type, size) == Cell("Item", type, size, 0, 0)
JsonCell(width, height, compressionType) == Cell("Json", "", width, height, compressionType)
TextCell == Cell("Text", "", 0, 0, 0)
BufferIndexCell(magicOk, indexDataOffset, numOffsets) ==
    Cell("BufferIndex", "", IF magicOk THEN 1 ELSE 0, indexDataOffset, numOffsets)
BufferOffsetCell(timestamp, offset) == Cell("BufferOffset", "", timestamp, offset, 0)
AudioIndexCell(numOffsets) == Cell("AudioIndex", "", numOffsets, 0, 0)
AudioMetadataCell(timestampNs) == Cell("AudioMetadata", "", timestampNs, 0, 0)
ByteCell(v) == Cell("Byte", "", v, 0, 0)
NullCell == Cell("Null", "", 0, 0, 0)

Bytes(seq) == [i \in 1..Len(seq) |-> ByteCell(seq[i])]

\* What a read of each structure yields from the cell under the cursor.  A
\* cell of another kind holds bytes that do not form the structure: an Item
\* of no known type, a wrong version, ident and magic, zero counts.
AsHeader(cell) ==
    IF cell.k = "Header" THEN [version |-> cell.a, identOk |-> cell.b = 1]
    ELSE [version |-> 0, identOk |-> FALSE]
AsItem(cell) ==
    IF cell.k = "Item" THEN [type |-> cell.t, size |-> cell.a]
    ELSE [type |-> "UNKNOWN", size |-> 0]
AsBufferIndex(cell) ==
    IF cell.k = "BufferIndex"
    THEN [magicOk |-> cell.a = 1, indexDataOffset |-> cell.b, numOffsets |-> cell.c]
    ELSE [magicOk |-> FALSE, indexDataOffset |-> 0, numOffsets |-> 0]
AsBufferOffset(cell) ==
    IF cell.k = "BufferOffset" THEN [timestamp |-> cell.a, offset |-> cell.b]
    ELSE [timestamp |-> 0, offset |-> 0]
AsAudioIndex(cell) ==
    IF cell.k = "AudioIndex" THEN [numOffsets |-> cell.a] ELSE [numOffsets |-> 0]
AsAudioMetadata(cell) ==
    IF cell.k = "AudioMetadata" THEN [timestampNs |-> cell.a] ELSE [timestampNs |-> 0]
AsByte(cell) == IF cell.k = "Byte" THEN cell.a ELSE 0

\* The frames an input file can hold: the payload, the size field of the
\* BUFFER item relative to the payload length, and the per-frame JSON.
FrameKinds ==
    {"ok", "okB", "tall", "short", "trunc", "ct5", "badjson", "reject", "pastEOF"}

PayloadCfg(ew, eh, bits, ref, pix) ==
    [ew |-> ew, eh |-> eh, bits |-> bits, ref |-> ref, pix |-> pix,
     nb |-> ENCODING_BLOCK, off |-> 0, roff |-> 0, ramp |-> FALSE,
     varied |-> FALSE]

FramePayloadCfg(kind) ==
    CASE kind = "okB" -> PayloadCfg(64, 8, 0, 9, 0)
      [] kind = "tall" -> PayloadCfg(64, 8, 0, 3, 0)
      [] kind = "short" -> PayloadCfg(64, 4, 0, 3, 0)
      [] kind = "trunc" -> PayloadCfg(64, 4, 8, 0, 0)
      [] kind = "reject" -> PayloadCfg(65, 4, 0, 1, 0)
      [] OTHER -> PayloadCfg(64, 4, 1, 5, 32)

FramePayload(kind) == MkPayload(FramePayloadCfg(kind))

FrameJson(kind) ==
    CASE kind = "okB" -> JsonCell(3, 8, MOTIONCAM_COMPRESSION_TYPE)
      [] kind = "tall" -> JsonCell(2, 6, MOTIONCAM_COMPRESSION_TYPE)
      [] kind = "short" -> JsonCell(2, 8, MOTIONCAM_COMPRESSION_TYPE)
      [] kind = "ct5" -> JsonCell(4, 4, 5)
      [] kind = "badjson" -> TextCell
      [] OTHER -> JsonCell(4, 4, MOTIONCAM_COMPRESSION_TYPE)

PastEOF == 400

FrameRecord(kind) ==
    LET payload == FramePayload(kind)
    IN  <<ItemCell("BUFFER", IF kind = "pastEOF" THEN PastEOF ELSE Len(payload))>>
        \o Bytes(payload)
        \o <<ItemCell("METADATA", 1), FrameJson(kind)>>

\* A frame kind that follows the format: encoded_width a multiple of 64 and
\* >= width, encoded_height a multiple of 4 and >= height, offsets inside
\* the payload, compressionType 7, complete streams.
ValidFrameKinds == {"ok", "okB", "tall"}

\* Item::size is an unsigned field, declared outside these sources; the
\* format gives it 64 bits, modelled 30 bits wide.  sizeof(Item) is one cell,
\* so the size ItemSizeModulus - 1 is the largest value of the field.
ItemSizeModulus == 2 ^ 30

\* item.size passed to FSEEK as its signed offset: a value in the upper
\* half of the range of the field is a negative offset.
OffT(size) == IF size >= ItemSizeModulus \div 2 THEN size - ItemSizeModulus ELSE size

\* The audio part of an input file: the chunks after the last frame and the
\* entries of the AUDIO_INDEX record (none: the file has no AUDIO_INDEX).
AudioKinds == {"none", "one", "two", "negOffset", "badType", "pastEOF", "backSize"}

AudioChunkRecord(sizeField, samples, withMeta, ts) ==
    <<ItemCell("AUDIO_DATA", sizeField)>> \o Bytes(samples)
    \o (IF withMeta
        THEN <<ItemCell("AUDIO_DATA_METADATA", 1), AudioMetadataCell(ts)>>
        ELSE <<>>)

AudioChunks(audio) ==
    CASE audio = "none" -> <<>>
      [] audio = "pastEOF" -> <<AudioChunkRecord(PastEOF, <<1, 0>>, TRUE, 11)>>
      [] audio = "backSize" -> <<AudioChunkRecord(ItemSizeModulus - 1, <<>>, FALSE, 0)>>
      [] OTHER -> <<AudioChunkRecord(4, <<1, 0, 2, 1>>, TRUE, 11),
                    AudioChunkRecord(3, <<5, 0, 7>>, FALSE, 0)>>

RECURSIVE Flatten(_)
Flatten(seqs) == IF seqs = <<>> THEN <<>> ELSE Head(seqs) \o Flatten(Tail(seqs))

\* Start offsets of the records of a sequence laid out from offset `base`.
RECURSIVE Starts(_, _)
Starts(seqs, base) ==
    IF seqs = <<>> THEN <<>>
    ELSE <<base>> \o Starts(Tail(seqs), base + Len(Head(seqs)))

\* The BufferOffset entries of the AUDIO_INDEX record, from the offsets of
\* the audio chunks.
AudioEntries(audio, starts) ==
    CASE audio = "none" -> <<>>
      [] audio = "one" -> <<BufferOffsetCell(11, starts[1])>>
      [] audio = "two" -> <<BufferOffsetCell(11, starts[1]), BufferOffsetCell(12, starts[2])>>
      [] audio = "negOffset" -> <<BufferOffsetCell(11, starts[1]), BufferOffsetCell(12, 0 - 1),
                                  BufferOffsetCell(13, starts[2])>>
      [] audio = "badType" -> <<BufferOffsetCell(11, starts[1] + 1)>>
      [] OTHER -> <<BufferOffsetCell(11, starts[1])>>

Faults == {"version", "ident", "firstType", "containerJson", "indexType", "magic",
           "indexOffset", "indexCount"}

IndexFaults == {"none", "negOffset", "toMetadata", "pastEnd"}

\* The entry of the offsets table for frame i at offset `start`.
IndexEntry(idx, i, ts, start, payloadLen, fileEnd) ==
    IF i # 1 \/ idx = "none" THEN BufferOffsetCell(ts, start)
    ELSE IF idx = "negOffset" THEN BufferOffsetCell(ts, 0 - 1)
    ELSE IF idx = "toMetadata" THEN BufferOffsetCell(ts, start + 1 + payloadLen)
    ELSE BufferOffsetCell(ts, fileEnd + 5)

\* The file of a configuration c = [frames, ts, audio, idx, faults, keep]:
\* header, container metadata, the frames, the audio chunks, the audio
\* index, the offsets table, the BUFFER_INDEX record.  keep >= 0 leaves only
\* the first `keep` cells (a file too short to open).
MkFile(c) ==
    LET n == Len(c.frames)
        head == <<HeaderCell(IF "version" \in c.faults THEN CONTAINER_VERSION + 1
                             ELSE CONTAINER_VERSION,
                             "ident" \notin c.faults),
                  ItemCell(IF "firstType" \in c.faults THEN "BUFFER" ELSE "METADATA", 1),
                  IF "containerJson" \in c.faults THEN TextCell ELSE JsonCell(0, 0, 0)>>
        frameRecs == [i \in 1..n |-> FrameRecord(c.frames[i])]
        frameStarts == Starts(frameRecs, Len(head))
        frameCells == Flatten(frameRecs)
        audioRecs == AudioChunks(c.audio)
        audioStarts == Starts(audioRecs, Len(head) + Len(frameCells))
        audioCells == Flatten(audioRecs)
        entries == AudioEntries(c.audio, audioStarts)
        audioIndex == IF c.audio = "none" THEN <<>>
                      ELSE <<ItemCell("AUDIO_INDEX", 1 + Len(entries)),
                             AudioIndexCell(Len(entries))>> \o entries
        tableAt == Len(head) + Len(frameCells) + Len(audioCells) + Len(audioIndex)
        fileEnd == tableAt + n + 2
        table == [i \in 1..n |->
                    IndexEntry(c.idx, i, c.ts[i], frameStarts[i],
                               Len(FramePayload(c.frames[i])), fileEnd)]
        trailer == <<ItemCell(IF "indexType" \in c.faults THEN "METADATA"
                              ELSE "BUFFER_INDEX", 1),
                     BufferIndexCell("magic" \notin c.faults,
                                     IF "indexOffset" \in c.faults THEN 0 - 1 ELSE tableAt,
                                     IF "indexCount" \in c.faults THEN n + 3 ELSE n)>>
        whole == head \o frameCells \o audioCells \o audioIndex \o table \o trailer
    IN  IF c.keep >= 0 THEN SubSeq(whole, 1, c.keep) ELSE whole

(***************************************************************************)
(* Stream operations on the file: FSEEK and fread                          *)
(***************************************************************************)
\* fseeko fails when the resulting position is negative; a position past
\* the end of the file is accepted.
SeekFails(target) == target < 0

\* read(data, n) is fread(data, n, 1, mFile) != 1: it fails when the n
\* cells at pos do not all exist, and when n is 0 (fread then returns 0).
ShortRead(file, pos, n) == n = 0 \/ pos + n > Len(file)

\* The position after a short read: the end of the file.
AfterShortRead(file, pos, n) == IF n = 0 \/ pos > Len(file) THEN pos ELSE Len(file)

CellAt(file, pos) == file[pos + 1]

\* std::vector::resize: keeps the leading elements, zero-fills new ones.
Resize(v, n) == [i \in 1..n |-> IF i <= Len(v) THEN v[i] ELSE 0]

(***************************************************************************)
(* Decoder::loadFrame                                                      *)
(***************************************************************************)
Builds == {"lib", "part_002"}

\* src/lib/Decoder.cpp: outData.resize(sizeof(uint16_t) * width*height).
outputSizeBytes(width, height) == 2 * width * height

\* src/unnamed/part_002: outData.resize(static_cast<size_t>(width) * height).
outputSizePixels(width, height) == width * height

OutDataSize(b, width, height) ==
    IF b = "lib" THEN outputSizeBytes(width, height)
    ELSE outputSizePixels(width, height)

\* The position loadFrame reads from after FSEEK(mFile, offset, SEEK_SET).
FrameSeek(pos, offset) == offset

\* The outcome of a call: how it returned (status "ok" or "throw" with the
\* exception message), the state it leaves (file position, mTmpBuffer, the
\* caller's outData and outMetadata), the number of FSEEK and fread calls it
\* made, whether it ran into undefined behaviour, and the facts of its
\* raw::Decode call (dec: 0 no call, 1 error return, 2 decoded).
Outcome(status, err, pos, tmp, out, meta, io, ub, dec, ret, written) ==
    [status |-> status, err |-> err, pos |-> pos, tmp |-> tmp, out |-> out,
     meta |-> meta, io |-> io, ub |-> ub, dec |-> dec, ret |-> ret,
     written |-> written]

Throw(err, pos, tmp, out, meta, io) ==
    Outcome("throw", err, pos, tmp, out, meta, io, FALSE, 0, 0, 0)

\* The part of loadFrame after the BUFFER payload is in mTmpBuffer (tmp),
\* with the cursor at pos and `io` stream calls made.
LoadFrameMetadata(b, cdc, file, pos, tmp, out, meta, io, j) ==
    IF ShortRead(file, pos, 1)
    THEN Throw("Failed to read data", AfterShortRead(file, pos, 1), tmp, out, meta, io + 1)
    ELSE
    LET metadataItem == AsItem(CellAt(file, pos)) IN
    IF metadataItem.type # "METADATA"
    THEN Throw("Invalid metadata", pos + 1, tmp, out, meta, io + 1)
    ELSE IF ShortRead(file, pos + 1, metadataItem.size)
    THEN Throw("Failed to read data", AfterShortRead(file, pos + 1, metadataItem.size), tmp, out, meta, io + 2)
    ELSE
    LET json == IF metadataItem.size = 1 THEN CellAt(file, pos + 1) ELSE TextCell
        pos2 == pos + 1 + metadataItem.size
    IN
    IF json.k # "Json"
    THEN Throw("parse error", pos2, tmp, out, meta, io + 2)
    ELSE
    LET width == json.a
        height == json.b
        compressionType == json.c
    IN
    IF compressionType # MOTIONCAM_COMPRESSION_TYPE
    THEN Throw("Invalid compression type", pos2, tmp, out, json, io + 2)
    ELSE
    Only({Only({Only({Only({
        IF d.ret <= 0
        THEN Outcome("throw", "Failed to uncompress frame", pos2, tmp, out2, json,
                     io + 2, d.ub \/ Len(d.written) > size, 1, d.ret, Len(d.written))
        ELSE Outcome("ok", "", pos2, tmp, out2, json, io + 2,
                     d.ub \/ Len(d.written) > size, 2, d.ret, Len(d.written)) :
    out2 \in {[i \in 1..size |->
                 IF i <= Len(d.written) THEN d.written[i] ELSE resized[i]]}}) :
    d \in {Decode(cdc, width, height, tmp, Len(tmp), j)}}) :
    resized \in {Resize(out, size)}}) :
    size \in {OutDataSize(b, width, height)}})

\* A read that appends the payload to mTmpBuffer instead of resizing it.
ReadPayload_append(file, at, size, tmp) ==
    tmp \o [i \in 1..size |->
              IF at + i <= Len(file) THEN AsByte(CellAt(file, at + i - 1)) ELSE 0]

\* mTmpBuffer after mTmpBuffer.resize(size) and the fread of size bytes at
\* `at`: the bytes the file has, the resized buffer's content past them.
ReadPayload(file, at, size, tmp) ==
    [i \in 1..size |->
        IF at + i <= Len(file) THEN AsByte(CellAt(file, at + i - 1))
        ELSE Resize(tmp, size)[i]]

\* A lookup with operator[]: a missing timestamp is inserted with a default
\* BufferOffset.
MapAfterLookup_subscript(map, timestamp) ==
    [t \in DOMAIN map \cup {timestamp} |->
        IF t \in DOMAIN map THEN map[t] ELSE [timestamp |-> 0, offset |-> 0]]

\* mFrameOffsetMap after the find() and at() of loadFrame: neither inserts.
MapAfterLookup(map, timestamp) == map

\* The part of loadFrame after the lookup in mFrameOffsetMap gave offset.
LoadFrameAt(b, cdc, file, offset, pos, tmp, out, meta, j) ==
    IF SeekFails(offset)
    THEN Throw("Invalid offset", pos, tmp, out, meta, 1)
    ELSE
    LET pos1 == FrameSeek(pos, offset) IN
    IF ShortRead(file, pos1, 1)
    THEN Throw("Failed to read data", AfterShortRead(file, pos1, 1), tmp, out, meta, 2)
    ELSE
    LET bufferItem == AsItem(CellAt(file, pos1)) IN
    IF bufferItem.type # "BUFFER"
    THEN Throw("Invalid buffer type", pos1 + 1, tmp, out, meta, 2)
    ELSE
    Only({
        IF ShortRead(file, pos1 + 1, bufferItem.size)
        THEN Throw("Failed to read data",
                   AfterShortRead(file, pos1 + 1, bufferItem.size), tmp2, out, meta, 3)
        ELSE LoadFrameMetadata(b, cdc, file, pos1 + 1 + bufferItem.size, tmp2, out,
                               meta, 3, j) :
    tmp2 \in {ReadPayload(file, pos1 + 1, bufferItem.size, tmp)}})

\* A lookup with operator[] in place of find(): a missing timestamp gets a
\* default BufferOffset (offset 0) and the call goes on.
LoadFrameCall_noFind(b, cdc, file, map, pos, tmp, out, meta, timestamp, j) ==
    LoadFrameAt(b, cdc, file,
                IF timestamp \in DOMAIN map THEN map[timestamp].offset ELSE 0,
                pos, tmp, out, meta, j)

\* loadFrame(timestamp, outData, outMetadata) on a reader with the given
\* map, file position and mTmpBuffer; j is the indeterminate value.
LoadFrameCall(b, cdc, file, map, pos, tmp, out, meta, timestamp, j) ==
    IF timestamp \notin DOMAIN map
    THEN Throw("Frame not found", pos, tmp, out, meta, 0)
    ELSE LoadFrameAt(b, cdc, file, map[timestamp].offset, pos, tmp, out, meta, j)

(***************************************************************************)
(* Decoder::loadAudio                                                      *)
(***************************************************************************)
\* int16 samples of `size` bytes read into a zero-filled vector of
\* (size + 1) / 2 elements, little-endian.
AudioSamples(file, pos, size) ==
    [s \in 1..((size + 1) \div 2) |->
        AsByte(CellAt(file, pos + 2 * (s - 1)))
        + (IF 2 * s <= size THEN 256 * AsByte(CellAt(file, pos + 2 * s - 1)) ELSE 0)]

AudioOutcome(status, err, pos, chunks, io, seekSwallowed) ==
    [status |-> status, err |-> err, pos |-> pos, chunks |-> chunks, io |-> io,
     seekSwallowed |-> seekSwallowed]

\* The loop of loadAudio from entry k of mAudioOffsets on; chunks is
\* outAudioChunks so far.
RECURSIVE AudioLoop(_, _, _, _, _, _)
AudioLoop(file, offsets, k, pos, chunks, io) ==
    IF k > Len(offsets) THEN AudioOutcome("ok", "", pos, chunks, io, FALSE)
    ELSE
    LET o == offsets[k] IN
    IF SeekFails(o.offset)
    THEN AudioOutcome("ok", "", pos, chunks, io + 1, TRUE)
    ELSE IF ShortRead(file, o.offset, 1)
    THEN AudioOutcome("throw", "Failed to read data", AfterShortRead(file, o.offset, 1),
                      chunks, io + 2, FALSE)
    ELSE
    LET audioDataItem == AsItem(CellAt(file, o.offset))
        dataAt == o.offset + 1
    IN
    IF audioDataItem.type # "AUDIO_DATA"
    THEN AudioOutcome("throw", "Invalid audio data", dataAt, chunks, io + 2, FALSE)
    ELSE IF ShortRead(file, dataAt, audioDataItem.size)
    THEN AudioOutcome("throw", "Failed to read data", AfterShortRead(file, dataAt, audioDataItem.size),
                      chunks, io + 3, FALSE)
    ELSE
    LET tmp == AudioSamples(file, dataAt, audioDataItem.size)
        metaAt == dataAt + audioDataItem.size
    IN
    IF ShortRead(file, metaAt, 1)
    THEN AudioOutcome("throw", "Failed to read data", AfterShortRead(file, metaAt, 1),
                      chunks, io + 4, FALSE)
    ELSE
    LET audioMetadataItem == AsItem(CellAt(file, metaAt)) IN
    IF audioMetadataItem.type = "AUDIO_DATA_METADATA"
    THEN IF ShortRead(file, metaAt + 1, 1)
         THEN AudioOutcome("throw", "Failed to read data",
                           AfterShortRead(file, metaAt + 1, 1), chunks, io + 5, FALSE)
         ELSE AudioLoop(file, offsets, k + 1, metaAt + 2,
                        Append(chunks,
                               [timestamp |-> AsAudioMetadata(CellAt(file, metaAt + 1)).timestampNs,
                                samples |-> tmp]),
                        io + 5)
    ELSE AudioLoop(file, offsets, k + 1, metaAt + 1,
                   Append(chunks, [timestamp |-> 0 - 1, samples |-> tmp]), io + 4)

\* loadAudio(outAudioChunks): the chunks are pushed onto the caller's vector.
LoadAudioCall(file, offsets, pos, chunks) == AudioLoop(file, offsets, 1, pos, chunks, 0)

(***************************************************************************)
(* Decoder::init, readIndex, reindexOffsets, readExtra                     *)
(***************************************************************************)
OpenOutcome(status, err, pos, metadata, offsets) ==
    [status |-> status, err |-> err, pos |-> pos, metadata |-> metadata,
     offsets |-> offsets]

\* A header check that also accepts the next container version.
HeaderError_nextVersion(header) ==
    IF header.version # CONTAINER_VERSION /\ header.version # CONTAINER_VERSION + 1
    THEN "Invalid container version"
    ELSE IF ~header.identOk THEN "Invalid header id"
    ELSE ""

\* The two header checks of init: the message thrown, "" when both pass.
HeaderError(header) ==
    IF header.version # CONTAINER_VERSION THEN "Invalid container version"
    ELSE IF ~header.identOk THEN "Invalid header id"
    ELSE ""

\* readIndex, called with the container metadata already parsed.
ReadIndex(file, metadata) ==
    LET target == Len(file) - 2 IN
    IF SeekFails(target)
    THEN OpenOutcome("throw", "Failed to get end chunk", 3, metadata, <<>>)
    ELSE
    LET bufferIndexItem == AsItem(CellAt(file, target)) IN
    IF bufferIndexItem.type # "BUFFER_INDEX"
    THEN OpenOutcome("throw", "Invalid file", target + 1, metadata, <<>>)
    ELSE
    LET index == AsBufferIndex(CellAt(file, target + 1)) IN
    IF ~index.magicOk
    THEN OpenOutcome("throw", "Corrupted file", target + 2, metadata, <<>>)
    ELSE IF SeekFails(index.indexDataOffset)
    THEN OpenOutcome("throw", "Invalid index", target + 2, metadata, <<>>)
    ELSE IF index.numOffsets > 0
            /\ ShortRead(file, index.indexDataOffset, index.numOffsets)
    THEN OpenOutcome("throw", "Failed to read data",
                     AfterShortRead(file, index.indexDataOffset, index.numOffsets), metadata, <<>>)
    ELSE OpenOutcome("ok", "", index.indexDataOffset + index.numOffsets, metadata,
                     [i \in 1..index.numOffsets |->
                        AsBufferOffset(CellAt(file, index.indexDataOffset + i - 1))])

\* init up to and including readIndex, on a file opened at position 0.
InitRead(file) ==
    IF ShortRead(file, 0, 1)
    THEN OpenOutcome("throw", "Failed to read data", AfterShortRead(file, 0, 1), NullCell, <<>>)
    ELSE IF HeaderError(AsHeader(CellAt(file, 0))) # ""
    THEN OpenOutcome("throw", HeaderError(AsHeader(CellAt(file, 0))), 1, NullCell, <<>>)
    ELSE IF ShortRead(file, 1, 1)
    THEN OpenOutcome("throw", "Failed to read data", AfterShortRead(file, 1, 1), NullCell, <<>>)
    ELSE
    LET metadataItem == AsItem(CellAt(file, 1)) IN
    IF metadataItem.type # "METADATA"
    THEN OpenOutcome("throw", "Invalid camera metadata", 2, NullCell, <<>>)
    ELSE IF ShortRead(file, 2, metadataItem.size)
    THEN OpenOutcome("throw", "Failed to read data", AfterShortRead(file, 2, metadataItem.size), NullCell, <<>>)
    ELSE
    LET json == IF metadataItem.size = 1 THEN CellAt(file, 2) ELSE TextCell IN
    IF json.k # "Json"
    THEN OpenOutcome("throw", "parse error", 2 + metadataItem.size, NullCell, <<>>)
    ELSE ReadIndex(file, json)

NonDecreasing(ts) == \A i \in 1..(Len(ts) - 1) : ts[i] <= ts[i + 1]

IndexPermutations(n) == {f \in [1..n -> 1..n] : \A a, b \in 1..n : f[a] = f[b] => a = b}

\* reindexOffsets without the std::sort call.
SortedOrders_noSort(offsets) == {offsets}

\* std::sort by timestamp: every arrangement of the entries with
\* non-decreasing timestamps (the order of equal timestamps is unspecified).
SortedOrders(offsets) ==
    {o \in {[i \in 1..Len(offsets) |-> offsets[f[i]]] : f \in IndexPermutations(Len(offsets))} :
        NonDecreasing([i \in 1..Len(o) |-> o[i].timestamp])}

\* The loop of reindexOffsets pushing the offset of each entry, not its
\* timestamp.
FrameListOf_offset(offsets) == [i \in 1..Len(offsets) |-> offsets[i].offset]

\* The loop of reindexOffsets: mFrameList and mFrameOffsetMap from the
\* sorted mOffsets; insert() keeps the first entry of a timestamp.
FrameListOf(offsets) == [i \in 1..Len(offsets) |-> offsets[i].timestamp]

FrameOffsetMapOf(offsets) ==
    [t \in {offsets[i].timestamp : i \in 1..Len(offsets)} |->
        offsets[CHOOSE i \in 1..Len(offsets) :
                  /\ offsets[i].timestamp = t
                  /\ \A k \in 1..(i - 1) : offsets[k].timestamp # t]]

\* The record types readExtra skips.
SkippedTypes(b) ==
    IF b = "lib" THEN {"BUFFER", "METADATA", "AUDIO_DATA"}
    ELSE {"BUFFER", "METADATA", "AUDIO_DATA", "AUDIO_DATA_METADATA"}

ExtraOutcome(status, err, pos, audio, seekSwallowed, readSwallowed) ==
    [status |-> status, err |-> err, pos |-> pos, audio |-> audio,
     seekSwallowed |-> seekSwallowed, readSwallowed |-> readSwallowed]

\* The while(true) loop of readExtra with the cursor at pos; audio is
\* mAudioOffsets so far.  seen holds the (pos, audio) the loop has started
\* a pass with: a pass that starts with one of them again repeats what
\* followed it, and the loop never ends (status "hang").
RECURSIVE ScanLoop(_, _, _, _, _)
ScanLoop(b, file, pos, audio, seen) ==
    IF <<pos, audio>> \in seen
    THEN ExtraOutcome("hang", "", pos, audio, FALSE, FALSE)
    ELSE IF ShortRead(file, pos, 1)
    THEN ExtraOutcome("ok", "", AfterShortRead(file, pos, 1), audio, FALSE, TRUE)
    ELSE
    LET item == AsItem(CellAt(file, pos)) IN
    IF item.type \in SkippedTypes(b)
    THEN IF SeekFails(pos + 1 + OffT(item.size))
         THEN ExtraOutcome("ok", "", pos + 1, audio, TRUE, FALSE)
         ELSE ScanLoop(b, file, pos + 1 + OffT(item.size), audio,
                       seen \cup {<<pos, audio>>})
    ELSE IF item.type = "AUDIO_INDEX"
    THEN IF ShortRead(file, pos + 1, 1)
         THEN ExtraOutcome("throw", "Failed to read data",
                           AfterShortRead(file, pos + 1, 1), audio, FALSE, FALSE)
         ELSE
         LET index == AsAudioIndex(CellAt(file, pos + 1)) IN
         IF index.numOffsets > 0 /\ ShortRead(file, pos + 2, index.numOffsets)
         THEN ExtraOutcome("throw", "Failed to read data",
                           AfterShortRead(file, pos + 2, index.numOffsets),
                           audio, FALSE, FALSE)
         ELSE ScanLoop(b, file, pos + 2 + index.numOffsets,
                       [i \in 1..index.numOffsets |->
                          AsBufferOffset(CellAt(file, pos + 1 + i))],
                       seen \cup {<<pos, audio>>})
    ELSE ExtraOutcome("ok", "", pos + 1, audio, FALSE, FALSE)

\* readExtra on the sorted mOffsets, the cursor at pos.
ReadExtra(b, file, offsets, pos) ==
    IF offsets = <<>> THEN ExtraOutcome("ok", "", pos, <<>>, FALSE, FALSE)
    ELSE IF SeekFails(offsets[Len(offsets)].offset)
    THEN ExtraOutcome("ok", "", pos, <<>>, TRUE, FALSE)
    ELSE ScanLoop(b, file, offsets[Len(offsets)].offset, <<>>, {})

(***************************************************************************)
(* Input files                                                             *)
(***************************************************************************)
\* Timestamps of the frames of a file with n frames: increasing with the
\* file order, decreasing, or with the first two equal.
TsPatterns == {"inc", "dec", "dup"}

TsOf(pattern, n) ==
    [i \in 1..n |->
        CASE pattern = "inc" -> 10 * i
          [] pattern = "dec" -> 10 * (n + 1 - i)
          [] OTHER -> 10 * ((i + 1) \div 2)]

\* Well-formed frames of alternating geometry.
FrameTail(n) == [i \in 1..n |-> IF i % 2 = 1 THEN "okB" ELSE "ok"]

\* Frame sequences: any kind first, well-formed frames after it.
FrameSeqs ==
    {<<>>} \cup {<<k>> \o FrameTail(n) : k \in FrameKinds, n \in 0..(MaxFrames - 1)}

Config(frames, ts, audio, idx, faults, keep) ==
    [frames |-> frames, ts |-> ts, audio |-> audio, idx |-> idx,
     faults |-> faults, keep |-> keep]

\* Files that differ in their frames and timestamps.
FrameConfigs ==
    {Config(f, TsOf(p, Len(f)), "none", "none", {}, 0 - 1) : f \in FrameSeqs, p \in TsPatterns}

\* Files with one or two faults in the header, the first record or the
\* trailing index, and files cut short.
FaultConfigs ==
    {Config(<<"ok">>, <<10>>, "none", "none", fs, 0 - 1) :
        fs \in {x \in SUBSET Faults : Cardinality(x) \in {1, 2}}}
    \cup {Config(<<"ok">>, <<10>>, "none", "none", {}, k) : k \in 0..2}

\* Files with audio and files whose offsets table has a bad first entry.
AudioConfigs ==
    {Config(f, TsOf("inc", Len(f)), a, "none", {}, 0 - 1) :
        f \in {<<"ok">>, <<"ok", "okB">>}, a \in AudioKinds \ {"none"}}

IndexConfigs ==
    {Config(<<"ok", "okB">>, TsOf(p, 2), "one", x, {}, 0 - 1) :
        p \in {"inc", "dec"}, x \in IndexFaults \ {"none"}}

Configs == FrameConfigs \cup FaultConfigs \cup AudioConfigs \cup IndexConfigs

\* A file that follows the format: no fault, every frame well-formed, the
\* timestamps of the index pairwise distinct.
ValidConfig(c) ==
    /\ c.faults = {} /\ c.keep < 0 /\ c.idx = "none"
    /\ c.audio \in {"none", "one", "two"}
    /\ \A i \in 1..Len(c.frames) : c.frames[i] \in ValidFrameKinds
    /\ \A i, k \in 1..Len(c.ts) : c.ts[i] = c.ts[k] => i = k

\* The codecs to read a file with.  The two codecs differ in nothing but
\* ENCODING_BLOCK_LENGTH, so a file whose blocks all have a bits value at
\* which the two tables agree is read with one of them.
CodecsFor(c) ==
    IF \E i \in 1..Len(c.frames) :
          BlockLengthTable("RawData")[FramePayloadCfg(c.frames[i]).bits + 1]
          # BlockLengthTable("Decoder")[FramePayloadCfg(c.frames[i]).bits + 1]
    THEN Codecs
    ELSE {"RawData"}

\* The timestamps a caller asks for: those of the files and one of no file.
CallTimestamps == {10 * i : i \in 1..MaxFrames} \cup {99}

(***************************************************************************)
(* The FUSE example: the frames of the container served as files, decoded  *)
(* on first read and kept in a cache.                                      *)
(***************************************************************************)
\* static const size_t MAX_CACHE_FRAMES
MAX_CACHE_FRAMES == 10

\* Number of frames of the container: filenames holds frameName(0) ..
\* frameName(NumFiles - 1), here the indices themselves.
NumFiles == 11

\* Calls the second FUSE thread makes.
MaxOtherCalls == 1

\* Calls the playing FUSE thread makes.
MaxPlayerCalls == 12

filenames == 0..(NumFiles - 1)

\* A path that names no frame.
NoSuchFile == 0 - 1

\* main, which warms the cache up before fuse_main, and the threads of
\* fuse_main: one that reads the frames in playing order, one that makes
\* any call.
Threads == {"main", "player", "other"}

NoThread == "none"

Mutexes == {"frameCacheMutex", "frameSizeMutex", "decoderMutex"}

\* Size of the DNG file made of a frame: frames of one container have one
\* size.
DngSize == 1

(***************************************************************************)
(* State                                                                   *)
(***************************************************************************)
VARIABLES
    build,            \* the Decoder source in use
    codec,            \* the codec source in use
    cfg,              \* the configuration the file was made from
    file,             \* the cells of the file
    state,            \* "Unopened", "Ready", "Failed" (the constructor threw),
                      \* "Crashed", "Destroyed" (the destructor has run),
                      \* "Hung" (the constructor never returns)
    pos,              \* position of mFile
    mFile,            \* the FILE* of fopen: whether it is open, and the fclose calls made on it
    mMetadata, mOffsets, mFrameList, mFrameOffsetMap, mAudioOffsets, mTmpBuffer,
    outData,          \* the caller's pixel vector
    outMetadata,      \* the caller's json object
    outAudioChunks,   \* the caller's chunk vector
    last,             \* the last completed call and how it ended
    calls,            \* number of load calls made
    firstOut,         \* per timestamp, outData after the first loadFrame that returned
    shadow,           \* the reader and caller as they would be without a failed call
    dIn, dOut,        \* argument and result of a direct call of raw::Decode,
                      \* DecodeBlock or DecodeMetadata
    pc,               \* FUSE example: where each thread is
    path,             \* per thread, the path of its call
    frameCache,       \* file name -> size of its DNG data
    frameCacheOrder,  \* the eviction queue
    frameSize,
    mutex,            \* per mutex, the thread that holds it
    fuseCalls,       \* per thread, the calls it has begun
    loaded,           \* per thread, load_frame returned 0 in its call
    returned,         \* per thread, what its last call returned
    recency,          \* the cached names by last read, oldest first
    inserted,         \* the insertions not yet retired by an eviction, oldest first
    evicted           \* the last eviction

readerVars == <<build, codec, cfg, file, state, pos, mFile, mMetadata, mOffsets,
                mFrameList, mFrameOffsetMap, mAudioOffsets, mTmpBuffer, outData,
                outMetadata, outAudioChunks, last, calls, firstOut, shadow>>

vars == <<build, codec, cfg, file, state, pos, mFile, mMetadata, mOffsets, mFrameList,
          mFrameOffsetMap, mAudioOffsets, mTmpBuffer, outData, outMetadata,
          outAudioChunks, last, calls, firstOut, shadow, dIn, dOut,
          pc, path, frameCache, frameCacheOrder, frameSize, mutex, fuseCalls,
          loaded, returned, recency, inserted, evicted>>

fuseVars == <<pc, path, frameCache, frameCacheOrder, frameSize, mutex,
              fuseCalls, loaded, returned, recency, inserted, evicted>>

NoEviction == [happened |-> FALSE, key |-> NoSuchFile, removed |-> FALSE,
               oldest |-> NoSuchFile, lru |-> NoSuchFile]

\* The globals of the example as constructed, before main runs.
FuseGlobals ==
    /\ path = [t \in Threads |-> NoSuchFile]
    /\ frameCache = <<>>
    /\ frameCacheOrder = <<>>
    /\ frameSize = 0
    /\ mutex = [m \in Mutexes |-> NoThread]
    /\ fuseCalls = [t \in Threads |-> 0]
    /\ loaded = [t \in Threads |-> FALSE]
    /\ returned = [t \in Threads |-> "none"]
    /\ recency = <<>>
    /\ inserted = <<>>
    /\ evicted = NoEviction

\* The example is not running.
FuseOff ==
    /\ pc = [t \in Threads |-> "off"]
    /\ FuseGlobals

persistent == <<mOffsets, mFrameList, mFrameOffsetMap, mAudioOffsets, mMetadata>>

LastCall(op, timestamp, status, err, io, ub, dec, ret, written, posBefore, seekSwallowed, readSwallowed) ==
    [op |-> op, timestamp |-> timestamp, status |-> status, err |-> err,
     io |-> io, ub |-> ub, dec |-> dec, ret |-> ret, written |-> written,
     posBefore |-> posBefore, seekSwallowed |-> seekSwallowed,
     readSwallowed |-> readSwallowed]

\* No FILE* yet: the constructor has not run.
NoFile == [open |-> FALSE, closes |-> 0]

NoCall == LastCall("none", 0, "ok", "", 0, FALSE, 0, 0, 0, 0, FALSE, FALSE)

\* shadow: the position and mTmpBuffer the reader would have had the
\* loadFrame that failed on timestamp failedTs not been made; compared and
\* same tell whether a later loadFrame ran on both and ended the same way.
NoShadow == [active |-> FALSE, failedTs |-> 0, pos |-> 0, tmp |-> <<>>,
             compared |-> FALSE, same |-> TRUE]

NoDecodeIn == [codec |-> "RawData", width |-> 0, height |-> 0,
               c |-> PayloadCfg(0, 0, 0, 0, 0), j |-> 0]

NoDecode == [called |-> FALSE, ret |-> 0, written |-> <<>>, ub |-> FALSE,
             error |-> FALSE, oob |-> FALSE, over |-> FALSE, tiles |-> <<>>,
             bits |-> NoMetadata, refs |-> NoMetadata,
             header |-> [encodedWidth |-> 0, encodedHeight |-> 0,
                         bitsOffset |-> 0, refsOffset |-> 0]]

Init ==
    /\ build \in Builds
    /\ cfg \in Configs
    /\ codec \in CodecsFor(cfg)
    /\ file = MkFile(cfg)
    /\ state = "Unopened"
    /\ pos = 0
    /\ mFile = NoFile
    /\ FuseOff
    /\ mMetadata = NullCell
    /\ mOffsets = <<>>
    /\ mFrameList = <<>>
    /\ mFrameOffsetMap = <<>>
    /\ mAudioOffsets = <<>>
    /\ mTmpBuffer = <<>>
    /\ outData = <<>>
    /\ outMetadata = NullCell
    /\ outAudioChunks = <<>>
    /\ last = NoCall
    /\ calls = 0
    /\ firstOut = [t \in CallTimestamps |-> [seen |-> FALSE, out |-> <<>>]]
    /\ shadow = NoShadow
    /\ dIn = NoDecodeIn
    /\ dOut = NoDecode

(***************************************************************************)
(* Decoder::Decoder(path): fopen, then init().  When init throws the       *)
(* constructor throws and no Decoder object exists.                        *)
(***************************************************************************)
Open ==
    /\ state = "Unopened"
    /\ mFile' = [open |-> TRUE, closes |-> 0]
    /\ LET r == InitRead(file) IN
       IF r.status = "throw"
       THEN /\ state' = "Failed"
            /\ pos' = r.pos
            /\ last' = LastCall("open", 0, "throw", r.err, 0, FALSE, 0, 0, 0, 0,
                                FALSE, FALSE)
            /\ UNCHANGED <<mMetadata, mOffsets, mFrameList, mFrameOffsetMap,
                           mAudioOffsets>>
       ELSE \E sorted \in SortedOrders(r.offsets) :
            LET x == ReadExtra(build, file, sorted, r.pos) IN
            /\ pos' = x.pos
            /\ last' = LastCall("open", 0, x.status, x.err, 0, FALSE, 0, 0, 0, 0,
                                x.seekSwallowed, x.readSwallowed)
            /\ IF x.status \in {"throw", "hang"}
               THEN /\ state' = IF x.status = "throw" THEN "Failed" ELSE "Hung"
                    /\ UNCHANGED <<mMetadata, mOffsets, mFrameList,
                                   mFrameOffsetMap, mAudioOffsets>>
               ELSE /\ state' = "Ready"
                    /\ mMetadata' = r.metadata
                    /\ mOffsets' = sorted
                    /\ mFrameList' = FrameListOf(sorted)
                    /\ mFrameOffsetMap' = FrameOffsetMapOf(sorted)
                    /\ mAudioOffsets' = x.audio
    /\ UNCHANGED fuseVars
    /\ UNCHANGED <<build, codec, cfg, file, mTmpBuffer, outData, outMetadata,
                   outAudioChunks, calls, firstOut, shadow, dIn, dOut>>

(***************************************************************************)
(* loadFrame and loadAudio called on a Ready reader.  The caller passes    *)
(* the same vector to every call, as example.cpp does.  When the call ran  *)
(* into undefined behaviour the process may also crash.                    *)
(***************************************************************************)
\* What the caller observes of a loadFrame call.
Observed(r) ==
    [status |-> r.status, err |-> r.err, out |-> r.out,
     meta |-> IF r.status = "ok" THEN r.meta ELSE NullCell]

\* The outcomes of one loadFrame call: one per value of the indeterminate
\* reads when the call runs into undefined behaviour, else a single one.
LoadFrameOutcomes(b, cdc, f, map, p, tmp, out, meta, t) ==
    UNION {IF r0.ub
           THEN {[j |-> 0, r |-> r0]} \cup
                {[j |-> j, r |-> LoadFrameCall(b, cdc, f, map, p, tmp, out, meta, t, j)] :
                    j \in Junk \ {0}}
           ELSE {[j |-> 0, r |-> r0]} :
           r0 \in {LoadFrameCall(b, cdc, f, map, p, tmp, out, meta, t, 0)}}

loadFrame ==
    /\ state = "Ready"
    /\ calls < MaxCalls
    /\ \E t \in CallTimestamps :
       \E o \in LoadFrameOutcomes(build, codec, file, mFrameOffsetMap, pos, mTmpBuffer,
                                  outData, outMetadata, t) :
       LET r == o.r IN
       /\ calls' = calls + 1
       /\ \/ /\ r.ub
             /\ state' = "Crashed"
             /\ last' = LastCall("loadFrame", t, "crash", "", r.io, TRUE,
                                 r.dec, r.ret, r.written, pos, FALSE, FALSE)
             /\ UNCHANGED <<pos, mTmpBuffer, outData, outMetadata, firstOut, shadow>>
          \/ /\ state' = state
             /\ pos' = r.pos
             /\ mTmpBuffer' = r.tmp
             /\ outData' = r.out
             /\ outMetadata' = r.meta
             /\ last' = LastCall("loadFrame", t, r.status, r.err, r.io, r.ub,
                                 r.dec, r.ret, r.written, pos, FALSE, FALSE)
             /\ firstOut' = IF r.status = "ok" /\ ~firstOut[t].seen
                            THEN [firstOut EXCEPT ![t] = [seen |-> TRUE, out |-> r.out]]
                            ELSE firstOut
             /\ IF shadow.active
                THEN \E sh \in {LoadFrameCall(build, codec, file, mFrameOffsetMap,
                                              shadow.pos, shadow.tmp, outData,
                                              outMetadata, t, o.j)} :
                       shadow' = [shadow EXCEPT !.pos = sh.pos, !.tmp = sh.tmp,
                                                !.compared = TRUE,
                                                !.same = (Observed(sh) = Observed(r))]
                ELSE IF r.err = "Invalid compression type"
                THEN shadow' = [active |-> TRUE, failedTs |-> t, pos |-> pos,
                                tmp |-> mTmpBuffer, compared |-> FALSE, same |-> TRUE]
                ELSE shadow' = shadow
       /\ mFrameOffsetMap' = MapAfterLookup(mFrameOffsetMap, t)
    /\ UNCHANGED fuseVars
    /\ UNCHANGED <<build, codec, cfg, file, mFile, mMetadata, mOffsets, mFrameList,
                   mAudioOffsets, outAudioChunks, dIn, dOut>>

loadAudio ==
    /\ state = "Ready"
    /\ calls < MaxCalls
    /\ LET r == LoadAudioCall(file, mAudioOffsets, pos, outAudioChunks)
           sh == LoadAudioCall(file, mAudioOffsets, shadow.pos, outAudioChunks)
       IN  /\ calls' = calls + 1
           /\ pos' = r.pos
           /\ outAudioChunks' = r.chunks
           /\ last' = LastCall("loadAudio", 0, r.status, r.err, r.io, FALSE, 0, 0, 0,
                               pos, r.seekSwallowed, FALSE)
           /\ shadow' = IF shadow.active
                        THEN [shadow EXCEPT !.pos = sh.pos, !.compared = FALSE]
                        ELSE shadow
    /\ UNCHANGED fuseVars
    /\ UNCHANGED <<build, codec, cfg, file, state, mFile, mMetadata, mOffsets,
                   mFrameList, mFrameOffsetMap, mAudioOffsets, mTmpBuffer, outData,
                   outMetadata, firstOut, dIn, dOut>>

Next == Open \/ loadFrame \/ loadAudio

Spec == Init /\ [][Next]_vars

(***************************************************************************)
(* The life of a Decoder: the constructor, then Decoder::~Decoder() on the *)
(* object it made.  When the constructor throws there is no object and no  *)
(* destructor call.                                                        *)
(***************************************************************************)
Destroy ==
    /\ state = "Ready"
    /\ state' = "Destroyed"
    /\ mFile' = IF mFile.open
                THEN [open |-> FALSE, closes |-> mFile.closes + 1]
                ELSE mFile
    /\ UNCHANGED fuseVars
    /\ UNCHANGED <<build, codec, cfg, file, pos, mMetadata, mOffsets, mFrameList,
                   mFrameOffsetMap, mAudioOffsets, mTmpBuffer, outData,
                   outMetadata, outAudioChunks, last, calls, firstOut, shadow,
                   dIn, dOut>>

NextLifetime == Open \/ Destroy

SpecLifetime == Init /\ [][NextLifetime]_vars

(***************************************************************************)
(* raw::Decode called directly on a payload                                *)
(***************************************************************************)
DecodeGrid ==
    {[codec |-> cd, width |-> w, height |-> h,
      c |-> PayloadCfg(ew, eh, bp[1], 7, bp[2]), j |-> j] :
        cd \in Codecs, w \in {0 - 1, 0, 2, 64}, h \in {4, 6}, ew \in {0, 64, 65, 128},
        eh \in {0, 4, 8}, bp \in {<<0, 0>>, <<1, 32>>, <<8, 0>>}, j \in Junk}

\* Payloads with offsets outside the payload or with short streams.
DecodeSpecial ==
    {[codec |-> cd, width |-> 2, height |-> 4,
      c |-> [PayloadCfg(64, 4, 1, 7, 32) EXCEPT !.off = x[1], !.roff = x[2], !.nb = x[3]],
      j |-> j] :
        cd \in Codecs, x \in {<<200, 0, 64>>, <<0, 200, 64>>, <<200, 200, 64>>,
                              <<0, 0, 4>>, <<0, 0, 0>>, <<6, 0, 64>>,
                              <<12, 0, 64>>}, j \in Junk}

\* One 64x4 frame of four blocks with bits 8 and reference 0, each block
\* holding the bytes 0x00..0x3F.
DecodeRamp ==
    {[codec |-> cd, width |-> 64, height |-> 4,
      c |-> [PayloadCfg(64, 4, 8, 0, 4 * ENCODING_BLOCK) EXCEPT !.ramp = TRUE],
      j |-> j] : cd \in Codecs, j \in Junk}

\* Frames of one to four tiles whose blocks have bits values and references
\* that differ from block to block, with enough pixel bytes for every block.
DecodeVaried ==
    {[codec |-> cd, width |-> w, height |-> e[2],
      c |-> [PayloadCfg(e[1], e[2], 0, 65530, 512) EXCEPT !.varied = TRUE],
      j |-> j] :
        cd \in Codecs, w \in {2, 63, 64}, e \in {<<64, 4>>, <<128, 8>>, <<128, 5>>},
        j \in Junk}

DecodeInputs == DecodeGrid \cup DecodeSpecial \cup DecodeRamp \cup DecodeVaried

InitDecode ==
    /\ build = "lib"
    /\ codec = "RawData"
    /\ cfg = Config(<<>>, <<>>, "none", "none", {}, 0 - 1)
    /\ file = <<>>
    /\ state = "Codec"
    /\ pos = 0
    /\ mFile = NoFile
    /\ FuseOff
    /\ mMetadata = NullCell
    /\ mOffsets = <<>>
    /\ mFrameList = <<>>
    /\ mFrameOffsetMap = <<>>
    /\ mAudioOffsets = <<>>
    /\ mTmpBuffer = <<>>
    /\ outData = <<>>
    /\ outMetadata = NullCell
    /\ outAudioChunks = <<>>
    /\ last = NoCall
    /\ calls = 0
    /\ firstOut = [t \in CallTimestamps |-> [seen |-> FALSE, out |-> <<>>]]
    /\ shadow = NoShadow
    /\ dIn \in DecodeInputs
    /\ dOut = NoDecode

DecodeInput == MkPayload(dIn.c)

DecodeCall ==
    /\ state = "Codec"
    /\ ~dOut.called
    /\ \E input \in {DecodeInput} :
       \E d \in {Decode(dIn.codec, dIn.width, dIn.height, input, Len(input), dIn.j)} :
          dOut' = [called |-> TRUE, ret |-> d.ret, written |-> d.written,
                   ub |-> d.ub, error |-> d.error, oob |-> d.oob,
                   over |-> d.over, tiles |-> d.tiles, bits |-> d.bits,
                   refs |-> d.refs, header |-> d.header]
    /\ UNCHANGED <<readerVars, dIn, fuseVars>>

NextDecode == DecodeCall

SpecDecode == InitDecode /\ [][NextDecode]_vars

(***************************************************************************)
(* DecodeBlock called directly.  The input is `offset` bytes followed by n *)
(* bytes for the block, len = offset + n; the output array holds BlockOld  *)
(* before the call.                                                        *)
(***************************************************************************)
\* Byte i (from 1) of an input: all ones for pattern 0, else a sequence
\* that runs through all byte values.
BlockByte(pat, i) == IF pat = 0 THEN 255 ELSE (pat * i + 11) % 256

BlockOld == [k \in 1..ENCODING_BLOCK |-> 1000 + k]

BlockInputs ==
    {[codec |-> cd, bits |-> b, offset |-> o, n |-> n, pat |-> pat, j |-> j] :
        cd \in Codecs, b \in 0..18, o \in {0, 5},
        n \in {0, 7, 8, 16, 24, 32, 40, 48, 64, 80, 128, 130},
        pat \in {0, 37, 113}, j \in Junk}

BlockInput == [i \in 1..(dIn.offset + dIn.n) |-> BlockByte(dIn.pat, i)]

NoBlock == [called |-> FALSE, ret |-> 0, output |-> BlockOld, ub |-> FALSE,
            oob |-> FALSE, truncated |-> FALSE]

InitBlock ==
    /\ build = "lib"
    /\ codec = "RawData"
    /\ cfg = Config(<<>>, <<>>, "none", "none", {}, 0 - 1)
    /\ file = <<>>
    /\ state = "Block"
    /\ pos = 0
    /\ mFile = NoFile
    /\ FuseOff
    /\ mMetadata = NullCell
    /\ mOffsets = <<>>
    /\ mFrameList = <<>>
    /\ mFrameOffsetMap = <<>>
    /\ mAudioOffsets = <<>>
    /\ mTmpBuffer = <<>>
    /\ outData = <<>>
    /\ outMetadata = NullCell
    /\ outAudioChunks = <<>>
    /\ last = NoCall
    /\ calls = 0
    /\ firstOut = [t \in CallTimestamps |-> [seen |-> FALSE, out |-> <<>>]]
    /\ shadow = NoShadow
    /\ dIn \in BlockInputs
    /\ dOut = NoBlock

DecodeBlockCall ==
    /\ state = "Block"
    /\ ~dOut.called
    /\ \E input \in {BlockInput} :
       \E d \in {DecodeBlock(dIn.codec, BlockOld, dIn.bits, input, dIn.offset,
                             Len(input), dIn.j)} :
          dOut' = [called |-> TRUE, ret |-> d.ret, output |-> d.output,
                   ub |-> d.ub, oob |-> d.oob, truncated |-> d.truncated]
    /\ UNCHANGED <<readerVars, dIn, fuseVars>>

NextBlock == DecodeBlockCall

SpecBlock == InitBlock /\ [][NextBlock]_vars

(***************************************************************************)
(* DecodeMetadata called directly.  The input is `offset` bytes, the four  *)
(* bytes of num_blocks and one group per 64 values: a header with bits     *)
(* gb[1] (even groups) or gb[2] (odd groups) and reference ref + group     *)
(* number, then the bytes of the block; `cut` bytes are missing at the end.*)
(***************************************************************************)
MetadataInputs ==
    {[codec |-> cd, nb |-> nb, gb |-> gb, ref |-> ref, offset |-> o,
      cut |-> cut, j |-> j] :
        cd \in Codecs, nb \in {0, 1, 64, 65, 128},
        gb \in {<<0, 0>>, <<2, 4>>, <<8, 1>>, <<10, 15>>},
        ref \in {0, 300, 4094}, o \in {0, 3}, cut \in {0, 5}, j \in Junk}

RECURSIVE MetadataGroups(_, _, _, _)
MetadataGroups(g, n, gb, ref) ==
    IF g >= n THEN <<>>
    ELSE <<gb[(g % 2) + 1] * 16 + (ref + g) \div 256, (ref + g) % 256>>
         \o [i \in 1..BytesRead(gb[(g % 2) + 1]) |-> MetaByte(i + g)]
         \o MetadataGroups(g + 1, n, gb, ref)

MetadataInput ==
    LET whole == [i \in 1..dIn.offset |-> 238] \o LE32(dIn.nb)
                 \o MetadataGroups(0, (dIn.nb + ENCODING_BLOCK - 1) \div ENCODING_BLOCK,
                                   dIn.gb, dIn.ref)
    IN  SubSeq(whole, 1, Len(whole) - dIn.cut)

NoMetadataCall == [called |-> FALSE, offset |-> 0, size |-> 0, data |-> <<>>,
                   ub |-> FALSE, oob |-> FALSE, over |-> FALSE]

InitMetadata ==
    /\ build = "lib"
    /\ codec = "RawData"
    /\ cfg = Config(<<>>, <<>>, "none", "none", {}, 0 - 1)
    /\ file = <<>>
    /\ state = "Metadata"
    /\ pos = 0
    /\ mFile = NoFile
    /\ FuseOff
    /\ mMetadata = NullCell
    /\ mOffsets = <<>>
    /\ mFrameList = <<>>
    /\ mFrameOffsetMap = <<>>
    /\ mAudioOffsets = <<>>
    /\ mTmpBuffer = <<>>
    /\ outData = <<>>
    /\ outMetadata = NullCell
    /\ outAudioChunks = <<>>
    /\ last = NoCall
    /\ calls = 0
    /\ firstOut = [t \in CallTimestamps |-> [seen |-> FALSE, out |-> <<>>]]
    /\ shadow = NoShadow
    /\ dIn \in MetadataInputs
    /\ dOut = NoMetadataCall

DecodeMetadataCall ==
    /\ state = "Metadata"
    /\ ~dOut.called
    /\ \E input \in {MetadataInput} :
       \E d \in {DecodeMetadata(dIn.codec, input, dIn.offset, Len(input), dIn.j)} :
          dOut' = [called |-> TRUE, offset |-> d.offset, size |-> d.size,
                   data |-> d.data, ub |-> d.ub, oob |-> d.oob, over |-> d.over]
    /\ UNCHANGED <<readerVars, dIn, fuseVars>>

NextMetadata == DecodeMetadataCall

SpecMetadata == InitMetadata /\ [][NextMetadata]_vars

(***************************************************************************)
(* The FUSE example.  main opens the decoder, fills filenames, loads the   *)
(* first frame and runs fuse_main, whose threads call fs_read and          *)
(* fs_getattr.  A lock_guard is two steps: taking the mutex, which waits   *)
(* while another thread holds it, and the block it guards, which ends     *)
(* with the release.                                                       *)
(***************************************************************************)
\* pc of a thread: "idle" (no call in progress), "exit" (main returned 1),
\* "fuse_main" (main serves), or a place in load_frame, fs_read, fs_getattr.
LockLabels == {"lf_fast_lock", "lf_dec_lock", "lf_ins_lock", "lf_size_lock",
               "lf_size_cache_lock", "rd_lock", "ga_lock"}

\* The mutex the lock_guard at a label takes.
Wants(label) ==
    CASE label \in {"lf_fast_lock", "lf_ins_lock", "lf_size_cache_lock", "rd_lock"}
            -> "frameCacheMutex"
      [] label \in {"lf_size_lock", "ga_lock"} -> "frameSizeMutex"
      [] label = "lf_dec_lock" -> "decoderMutex"

\* The block the lock_guard at a label guards.
Guarded(label) ==
    CASE label = "lf_fast_lock" -> "lf_fast"
      [] label = "lf_dec_lock" -> "lf_decode"
      [] label = "lf_ins_lock" -> "lf_insert"
      [] label = "lf_size_lock" -> "lf_size"
      [] label = "lf_size_cache_lock" -> "lf_size_set"
      [] label = "rd_lock" -> "rd_copy"
      [] label = "ga_lock" -> "ga_read"

Unlock_never(m, mu) == m

\* The destructor of a lock_guard.
Unlock(m, mu) == [m EXCEPT ![mu] = NoThread]

\* frameCache.count(key)
Count(cache, key) == IF key \in DOMAIN cache THEN 1 ELSE 0

\* frameCache.erase(key)
Erase(cache, key) == [k \in (DOMAIN cache) \ {key} |-> cache[k]]

\* frameCache[key] = data
Assign(cache, key, data) ==
    [k \in (DOMAIN cache) \cup {key} |-> IF k = key THEN data ELSE cache[k]]

\* frameCache[key] read: operator[] adds the key with an empty string when
\* the map does not hold it.
Subscript(cache, key) ==
    IF key \in DOMAIN cache THEN cache ELSE Assign(cache, key, 0)

Front_back(order) == order[Len(order)]

\* frameCacheOrder.front()
Front(order) == Head(order)

\* frameCacheOrder.push_back(key)
PushBack(order, key) == Append(order, key)

\* frameCacheOrder.pop_front()
PopFront(order) == Tail(order)

\* seq without the occurrences of key.
RECURSIVE Without(_, _)
Without(seq, key) ==
    IF seq = <<>> THEN <<>>
    ELSE (IF Head(seq) = key THEN <<>> ELSE <<Head(seq)>>) \o Without(Tail(seq), key)

\* The name is read now: it becomes the last of the names by last read.
Touch(names, key) == Append(Without(names, key), key)

\* The frame after the one inserted last, in playing order.
NextFrame == (frameCacheOrder[Len(frameCacheOrder)] + 1) % NumFiles

\* The paths the second thread reads: the next frame, the frame at the
\* front of the eviction queue, a path that is no frame.
OtherPaths == {NextFrame, Head(frameCacheOrder), NoSuchFile}

\* load_frame returns r in thread t: main runs fuse_main or returns 1,
\* fs_read goes on to copy the bytes or returns r.
AfterLoad(t, r) ==
    IF t = "main"
    THEN (IF r = "0" THEN "fuse_main" ELSE "exit")
    ELSE (IF r = "0" THEN "rd_lock" ELSE "idle")

ReturnLoad(t, r) ==
    /\ pc' = [pc EXCEPT ![t] = AfterLoad(t, r)]
    /\ loaded' = [loaded EXCEPT ![t] = (r = "0")]
    /\ returned' = [returned EXCEPT ![t] = IF r = "0" THEN @ ELSE r]
    /\ path' = [path EXCEPT ![t] = IF AfterLoad(t, r) = "rd_lock" THEN @ ELSE NoSuchFile]

InitFuse ==
    /\ build = "lib"
    /\ codec = "RawData"
    /\ cfg = Config(<<>>, <<>>, "none", "none", {}, 0 - 1)
    /\ file = <<>>
    /\ state = "Fuse"
    /\ pos = 0
    /\ mFile = NoFile
    /\ mMetadata = NullCell
    /\ mOffsets = <<>>
    /\ mFrameList = <<>>
    /\ mFrameOffsetMap = <<>>
    /\ mAudioOffsets = <<>>
    /\ mTmpBuffer = <<>>
    /\ outData = <<>>
    /\ outMetadata = NullCell
    /\ outAudioChunks = <<>>
    /\ last = NoCall
    /\ calls = 0
    /\ firstOut = [t \in CallTimestamps |-> [seen |-> FALSE, out |-> <<>>]]
    /\ shadow = NoShadow
    /\ dIn = NoDecodeIn
    /\ dOut = NoDecode
    \* main is about to call load_frame(filenames[0])
    /\ pc = [t \in Threads |-> IF t = "main" THEN "lf_fast_lock" ELSE "idle"]
    /\ path = [t \in Threads |-> IF t = "main" THEN 0 ELSE NoSuchFile]
    /\ frameCache = <<>>
    /\ frameCacheOrder = <<>>
    /\ frameSize = 0
    /\ mutex = [m \in Mutexes |-> NoThread]
    /\ fuseCalls = [t \in Threads |-> 0]
    /\ loaded = [t \in Threads |-> FALSE]
    /\ returned = [t \in Threads |-> "none"]
    /\ recency = <<>>
    /\ inserted = <<>>
    /\ evicted = NoEviction

\* fs_read(path) begins in a thread of fuse_main.
fs_read(t) ==
    /\ state = "Fuse"
    /\ t # "main"
    /\ pc["main"] = "fuse_main"
    /\ pc[t] = "idle"
    /\ \E fn \in IF t = "player" THEN {NextFrame} ELSE OtherPaths :
          path' = [path EXCEPT ![t] = fn]
    /\ fuseCalls[t] < (IF t = "other" THEN MaxOtherCalls ELSE MaxPlayerCalls)
    /\ fuseCalls' = [fuseCalls EXCEPT ![t] = @ + 1]
    /\ pc' = [pc EXCEPT ![t] = "lf_fast_lock"]
    /\ loaded' = [loaded EXCEPT ![t] = FALSE]
    /\ returned' = [returned EXCEPT ![t] = "none"]
    /\ UNCHANGED <<readerVars, dIn, dOut, frameCache, frameCacheOrder, frameSize,
                   mutex, recency, inserted, evicted>>

\* fs_getattr of a file begins.
fs_getattr(t) ==
    /\ state = "Fuse"
    /\ t = "other"
    /\ pc["main"] = "fuse_main"
    /\ pc[t] = "idle"
    /\ fuseCalls[t] < MaxOtherCalls
    /\ fuseCalls' = [fuseCalls EXCEPT ![t] = @ + 1]
    /\ pc' = [pc EXCEPT ![t] = "ga_lock"]
    /\ loaded' = [loaded EXCEPT ![t] = FALSE]
    /\ returned' = [returned EXCEPT ![t] = "none"]
    /\ UNCHANGED <<readerVars, dIn, dOut, path, frameCache, frameCacheOrder,
                   frameSize, mutex, recency, inserted, evicted>>

\* The constructor of a lock_guard returns.
lock_guard(t) ==
    /\ state = "Fuse"
    /\ pc[t] \in LockLabels
    /\ mutex[Wants(pc[t])] = NoThread
    /\ mutex' = [mutex EXCEPT ![Wants(pc[t])] = t]
    /\ pc' = [pc EXCEPT ![t] = Guarded(pc[t])]
    /\ UNCHANGED <<readerVars, dIn, dOut, path, frameCache, frameCacheOrder,
                   frameSize, fuseCalls, loaded, returned, recency, inserted,
                   evicted>>

\* load_frame: the fast path, and the search of filenames.
load_frame_cached(t) ==
    /\ state = "Fuse"
    /\ pc[t] = "lf_fast"
    /\ mutex' = Unlock(mutex, "frameCacheMutex")
    /\ IF Count(frameCache, path[t]) # 0
       THEN ReturnLoad(t, "0")
       ELSE IF path[t] \notin filenames
       THEN ReturnLoad(t, "ENOENT")
       ELSE /\ pc' = [pc EXCEPT ![t] = "lf_dec_lock"]
            /\ UNCHANGED <<path, loaded, returned>>
    /\ UNCHANGED <<readerVars, dIn, dOut, frameCache, frameCacheOrder, frameSize,
                   fuseCalls, recency, inserted, evicted>>

\* load_frame: decoder->loadFrame, which may throw, and the DNG writer,
\* which may fail.
load_frame_decode(t) ==
    /\ state = "Fuse"
    /\ pc[t] = "lf_decode"
    /\ mutex' = Unlock(mutex, "decoderMutex")
    /\ \E outcome \in {"ok", "throw", "pack"} :
          IF outcome = "ok"
          THEN /\ pc' = [pc EXCEPT ![t] = "lf_ins_lock"]
               /\ UNCHANGED <<path, loaded, returned>>
          ELSE ReturnLoad(t, "EIO")
    /\ UNCHANGED <<readerVars, dIn, dOut, frameCache, frameCacheOrder, frameSize,
                   fuseCalls, recency, inserted, evicted>>

\* load_frame: the insertion into the cache.
load_frame_insert(t) ==
    /\ state = "Fuse"
    /\ pc[t] = "lf_insert"
    /\ \E full \in {Cardinality(DOMAIN frameCache) >= MAX_CACHE_FRAMES} :
          /\ frameCache' =
                Assign(IF full THEN Erase(frameCache, Front(frameCacheOrder))
                       ELSE frameCache,
                       path[t], DngSize)
          /\ frameCacheOrder' =
                PushBack(IF full THEN PopFront(frameCacheOrder) ELSE frameCacheOrder,
                         path[t])
          /\ evicted' =
                IF full
                THEN [happened |-> TRUE,
                      key |-> Front(frameCacheOrder),
                      removed |-> Front(frameCacheOrder) \in DOMAIN frameCache,
                      oldest |-> Head(inserted),
                      lru |-> IF recency = <<>> THEN NoSuchFile ELSE Head(recency)]
                ELSE NoEviction
          /\ recency' =
                Touch(IF full THEN Without(recency, Front(frameCacheOrder)) ELSE recency,
                      path[t])
          /\ inserted' = Append(IF full THEN Tail(inserted) ELSE inserted, path[t])
    /\ mutex' = Unlock(mutex, "frameCacheMutex")
    /\ pc' = [pc EXCEPT ![t] = "lf_size_lock"]
    /\ UNCHANGED <<readerVars, dIn, dOut, path, frameSize, fuseCalls, loaded,
                   returned>>

\* load_frame: frameSize is looked at under frameSizeMutex.
load_frame_size(t) ==
    /\ state = "Fuse"
    /\ pc[t] = "lf_size"
    /\ IF frameSize = 0
       THEN /\ pc' = [pc EXCEPT ![t] = "lf_size_cache_lock"]
            /\ UNCHANGED <<mutex, path, loaded, returned>>
       ELSE /\ mutex' = Unlock(mutex, "frameSizeMutex")
            /\ ReturnLoad(t, "0")
    /\ UNCHANGED <<readerVars, dIn, dOut, frameCache, frameCacheOrder, frameSize,
                   fuseCalls, recency, inserted, evicted>>

\* load_frame: frameSize is recorded under both mutexes.
load_frame_record(t) ==
    /\ state = "Fuse"
    /\ pc[t] = "lf_size_set"
    /\ frameCache' = Subscript(frameCache, path[t])
    /\ frameSize' = Subscript(frameCache, path[t])[path[t]]
    /\ mutex' = Unlock(Unlock(mutex, "frameCacheMutex"), "frameSizeMutex")
    /\ ReturnLoad(t, "0")
    /\ UNCHANGED <<readerVars, dIn, dOut, frameCacheOrder, fuseCalls, recency,
                   inserted, evicted>>

\* fs_read: the lookup after load_frame returned 0, and the copy.
fs_read_copy(t) ==
    /\ state = "Fuse"
    /\ pc[t] = "rd_copy"
    /\ IF path[t] \in DOMAIN frameCache
       THEN /\ returned' = [returned EXCEPT ![t] = "bytes"]
            /\ recency' = Touch(recency, path[t])
       ELSE /\ returned' = [returned EXCEPT ![t] = "ENOENT"]
            /\ UNCHANGED recency
    /\ mutex' = Unlock(mutex, "frameCacheMutex")
    /\ pc' = [pc EXCEPT ![t] = "idle"]
    /\ path' = [path EXCEPT ![t] = NoSuchFile]
    /\ UNCHANGED <<readerVars, dIn, dOut, frameCache, frameCacheOrder, frameSize,
                   fuseCalls, loaded, inserted, evicted>>

\* fs_getattr: st_size is frameSize.
fs_getattr_size(t) ==
    /\ state = "Fuse"
    /\ pc[t] = "ga_read"
    /\ returned' = [returned EXCEPT ![t] = "attr"]
    /\ mutex' = Unlock(mutex, "frameSizeMutex")
    /\ pc' = [pc EXCEPT ![t] = "idle"]
    /\ UNCHANGED <<readerVars, dIn, dOut, path, frameCache, frameCacheOrder,
                   frameSize, fuseCalls, loaded, recency, inserted, evicted>>

NextFuse ==
    \E t \in Threads :
       \/ fs_read(t)
       \/ fs_getattr(t)
       \/ lock_guard(t)
       \/ load_frame_cached(t)
       \/ load_frame_decode(t)
       \/ load_frame_insert(t)
       \/ load_frame_size(t)
       \/ load_frame_record(t)
       \/ fs_read_copy(t)
       \/ fs_getattr_size(t)

SpecFuse == InitFuse /\ [][NextFuse]_vars

(***************************************************************************)
(* Properties of the reader, checked under Spec.                           *)
(***************************************************************************)

\* C1: on a container that follows the format, loadFrame of a timestamp of
\* getFrames() succeeds and leaves outData with exactly width * height
\* elements, width and height being those of the frame's metadata.
C1_LoadFrameYieldsWidthTimesHeight ==
    (/\ last.op = "loadFrame"
     /\ ValidConfig(cfg)
     /\ \E i \in 1..Len(mFrameList) : mFrameList[i] = last.timestamp)
    => /\ last.status = "ok"
       /\ Len(outData) = outMetadata.a * outMetadata.b

\* C2: loadFrame is idempotent: a call that succeeds leaves in outData what
\* the first successful call for the same timestamp left, whatever calls
\* were made in between.
C2_LoadFrameIdempotent ==
    (/\ last.op = "loadFrame"
     /\ last.status = "ok"
     /\ firstOut[last.timestamp].seen)
    => outData = firstOut[last.timestamp].out

\* C3 as stated: getFrames() is strictly increasing whatever the entries of
\* the index, equal timestamps included.
C3_FramesStrictlyIncreasing ==
    state = "Ready" =>
        \A i, k \in 1..Len(mFrameList) : i < k => mFrameList[i] < mFrameList[k]

\* C3 amended: getFrames() is in non-decreasing order, has one element per
\* index entry, and is strictly increasing when the timestamps of the index
\* are pairwise distinct.
C3_FramesNonDecreasing ==
    state = "Ready" =>
        /\ \A i, k \in 1..Len(mFrameList) : i < k => mFrameList[i] <= mFrameList[k]
        /\ Len(mFrameList) = AsBufferIndex(file[Len(file)]).numOffsets
        /\ (\A i, k \in 1..Len(cfg.ts) : cfg.ts[i] = cfg.ts[k] => i = k)
           => \A i, k \in 1..Len(mFrameList) : i < k => mFrameList[i] < mFrameList[k]

\* C3 witness: a reader opened on an index whose entries are stored in
\* decreasing order of timestamp.
C3_Witness ==
    /\ state = "Ready"
    /\ Len(mFrameList) >= 2
    /\ cfg.ts[1] > cfg.ts[2]
    /\ cfg.idx = "none"

\* C4: loadFrame of a timestamp that is not in the index fails with
\* "Frame not found" before any seek or read (no stream call, the position
\* unchanged); on a container whose index has no entry getFrames() is empty
\* and every loadFrame fails so.
C4_MissingTimestampNotFound ==
    /\ (last.op = "loadFrame" /\ last.timestamp \notin DOMAIN mFrameOffsetMap)
       => /\ last.status = "throw"
          /\ last.err = "Frame not found"
          /\ last.io = 0
          /\ pos = last.posBefore
    /\ (state = "Ready" /\ AsBufferIndex(file[Len(file)]).numOffsets = 0)
       => /\ mFrameList = <<>>
          /\ last.op = "loadFrame" => last.err = "Frame not found"

\* C4 witness: loadFrame was called on a reader whose index has no entry.
C4_Witness ==
    /\ state = "Ready"
    /\ AsBufferIndex(file[Len(file)]).numOffsets = 0
    /\ last.op = "loadFrame"
    /\ last.err = "Frame not found"

\* C5: loadFrame of a frame whose metadata has a compressionType other than
\* 7 fails with "Invalid compression type" and the reader stays usable: a
\* later loadFrame of another timestamp ends as it would have ended had the
\* failed call not been made.
C5_BadCompressionKeepsReaderUsable ==
    /\ (/\ last.op = "loadFrame"
        /\ last.timestamp \in DOMAIN mFrameOffsetMap
        /\ LET o == mFrameOffsetMap[last.timestamp].offset IN
           /\ o >= 0 /\ o + 1 <= Len(file)
           /\ file[o + 1].k = "Item" /\ file[o + 1].t = "BUFFER"
           /\ LET m == o + 1 + file[o + 1].a IN
              /\ m + 2 <= Len(file)
              /\ file[m + 1].k = "Item" /\ file[m + 1].t = "METADATA"
              /\ file[m + 1].a = 1
              /\ file[m + 2].k = "Json"
              /\ file[m + 2].c # MOTIONCAM_COMPRESSION_TYPE)
       => /\ last.status = "throw"
          /\ last.err = "Invalid compression type"
          /\ state = "Ready"
    /\ (/\ last.op = "loadFrame"
        /\ last.status # "crash"
        /\ shadow.compared
        /\ last.timestamp # shadow.failedTs)
       => shadow.same

\* C5 witness: after a loadFrame failed on the compression type, a
\* loadFrame of another timestamp succeeded.
C5_Witness ==
    /\ shadow.compared
    /\ last.op = "loadFrame"
    /\ last.status = "ok"
    /\ last.timestamp # shadow.failedTs

\* C6: a loadFrame or loadAudio that fails leaves the persistent state of
\* the reader (index tables, frame list, offset map, audio offsets and
\* container metadata) as it was.
C6_ErrorsKeepPersistentState ==
    [][(last'.op \in {"loadFrame", "loadAudio"} /\ last'.status = "throw")
       => persistent' = persistent]_vars

\* C6 witness: a loadFrame failed on a read on a reader that lists frames.
C6_Witness ==
    /\ state = "Ready"
    /\ last.op = "loadFrame"
    /\ last.status = "throw"
    /\ last.err = "Failed to read data"
    /\ Len(mFrameList) > 0

C10_NoIoErrorSwallowed ==
    last.op \in {"open", "loadAudio"} => ~(last.seekSwallowed \/ last.readSwallowed)

\* C11: a loadAudio that returns appends exactly one chunk per entry of the
\* audio offsets table, in table order: chunk k holds the little-endian
\* int16 samples of the AUDIO_DATA record at the offset of entry k and the
\* timestamp of the AUDIO_DATA_METADATA record that directly follows it, -1
\* when the following record has another type.
C11_LoadAudioOneChunkPerEntry ==
    [][(last'.op = "loadAudio" /\ last'.status = "ok")
       => LET cell(i) == IF i >= 0 /\ i < Len(file) THEN file[i + 1] ELSE NullCell
              byte(i) == IF cell(i).k = "Byte" THEN cell(i).a ELSE 0
              chunk(k) ==
                  LET at == mAudioOffsets[k].offset
                      size == IF cell(at).k = "Item" THEN cell(at).a ELSE 0
                      next == cell(at + 1 + size)
                  IN  [timestamp |->
                           IF next.k = "Item" /\ next.t = "AUDIO_DATA_METADATA"
                           THEN cell(at + 2 + size).a
                           ELSE 0 - 1,
                       samples |->
                           [s \in 1..((size + 1) \div 2) |->
                               byte(at + 2 * s - 1)
                               + (IF 2 * s <= size THEN 256 * byte(at + 2 * s) ELSE 0)]]
          IN  outAudioChunks'
                  = outAudioChunks \o [k \in 1..Len(mAudioOffsets) |-> chunk(k)]]_vars

\* C19: the scan for the audio index starts at the offset of the
\* last-timestamped frame and reads records one by one; a record of type
\* BUFFER, METADATA, AUDIO_DATA or AUDIO_DATA_METADATA is skipped by seeking
\* past its size, an AUDIO_INDEX record fills the audio offsets table with
\* its num_offsets entries, any other type ends the scan: an AUDIO_INDEX
\* separated from the start position only by records of those four types
\* is always found.
C19_AudioIndexFound ==
    (state = "Ready" /\ mOffsets # <<>>)
    => LET cell(i) == IF i >= 0 /\ i < Len(file) THEN file[i + 1] ELSE NullCell
           isItem(i, types) == cell(i).k = "Item" /\ cell(i).t \in types
           skipped == {"BUFFER", "METADATA", "AUDIO_DATA", "AUDIO_DATA_METADATA"}
           \* the position of the n-th record read
           at[n \in 0..Len(file)] ==
               IF n = 0 THEN mOffsets[Len(mOffsets)].offset
               ELSE at[n - 1] + 1 + cell(at[n - 1]).a
       IN  \A n \in 0..Len(file) :
              (/\ \A k \in 0..(n - 1) : isItem(at[k], skipped)
               /\ isItem(at[n], {"AUDIO_INDEX"})
               /\ cell(at[n] + 1).k = "AudioIndex")
              => /\ Len(mAudioOffsets) = cell(at[n] + 1).a
                 /\ \A i \in 1..Len(mAudioOffsets) :
                       /\ mAudioOffsets[i].timestamp = cell(at[n] + 1 + i).a
                       /\ mAudioOffsets[i].offset = cell(at[n] + 1 + i).b

\* C20 as stated: reindexOffsets orders the offset table by ascending
\* timestamp with a stable sort (entries with equal timestamps keep their
\* order from the on-disk index), the timestamp list is the timestamps of the
\* table in that order, and the map sends every timestamp of the list to an
\* entry of the table carrying that timestamp.
C20_StableSortedIndex ==
    state = "Ready"
    => LET index == AsBufferIndex(file[Len(file)])
           n == index.numOffsets
           disk(d) == AsBufferOffset(file[index.indexDataOffset + d])
           \* where a stable sort puts entry d of the on-disk index
           place(d) == 1 + Cardinality({e \in 1..n :
                              \/ disk(e).timestamp < disk(d).timestamp
                              \/ disk(e).timestamp = disk(d).timestamp /\ e < d})
       IN  /\ Len(mOffsets) = n
           /\ \A d \in 1..n : mOffsets[place(d)] = disk(d)
           /\ mFrameList = [i \in 1..n |-> mOffsets[i].timestamp]
           /\ \A i \in 1..n :
                 /\ mFrameList[i] \in DOMAIN mFrameOffsetMap
                 /\ mFrameOffsetMap[mFrameList[i]].timestamp = mFrameList[i]
                 /\ \E k \in 1..n : mFrameOffsetMap[mFrameList[i]] = mOffsets[k]

\* C20 amended: reindexOffsets orders the offset table by ascending
\* timestamp: the table holds the entries of the on-disk index, each as
\* often as the index holds it, with non-decreasing timestamps, entries with
\* equal timestamps in either order; the timestamp list is the timestamps of
\* the table in that order, and the map sends every timestamp of the list to
\* an entry of the table carrying that timestamp.
C20_SortedIndex ==
    state = "Ready"
    => LET index == AsBufferIndex(file[Len(file)])
           n == index.numOffsets
           disk(d) == AsBufferOffset(file[index.indexDataOffset + d])
       IN  /\ Len(mOffsets) = n
           /\ \A d \in 1..n :
                 Cardinality({i \in 1..n : mOffsets[i] = disk(d)})
                 = Cardinality({e \in 1..n : disk(e) = disk(d)})
           /\ \A i \in 1..(n - 1) : mOffsets[i].timestamp <= mOffsets[i + 1].timestamp
           /\ mFrameList = [i \in 1..n |-> mOffsets[i].timestamp]
           /\ \A i \in 1..n :
                 /\ mFrameList[i] \in DOMAIN mFrameOffsetMap
                 /\ mFrameOffsetMap[mFrameList[i]].timestamp = mFrameList[i]
                 /\ \E k \in 1..n : mFrameOffsetMap[mFrameList[i]] = mOffsets[k]

\* C20 witness: a reader opened on an index whose first two entries have
\* the same timestamp, the table holding the second of them before the
\* first.
C20_Witness ==
    /\ state = "Ready"
    /\ Len(mOffsets) >= 2
    /\ mOffsets[1].timestamp = mOffsets[2].timestamp
    /\ mOffsets[1] = AsBufferOffset(file[AsBufferIndex(file[Len(file)]).indexDataOffset + 2])
    /\ mOffsets[2] = AsBufferOffset(file[AsBufferIndex(file[Len(file)]).indexDataOffset + 1])
    /\ mOffsets[1] # mOffsets[2]

\* C27: the file handle opened by Decoder(path) is released on every path:
\* when init fails after the file was opened the handle is closed, and in
\* every execution the handle is closed exactly once.  Stated of the ends of
\* a Decoder's life: the constructor has thrown, or the destructor has run.
C27_HandleClosedOnce ==
    state \in {"Failed", "Destroyed"}
    => /\ ~mFile.open
       /\ mFile.closes = 1

\* C28: the scan for the audio index terminates for every file content,
\* whatever type and size the scanned records carry, sizes that convert to
\* a negative seek offset included: the constructor, of which the scan is
\* the last step, always returns or throws.
C28_ReadExtraTerminates ==
    state # "Hung"

(***************************************************************************)
(* Properties of raw::Decode, checked under SpecDecode.                    *)
(***************************************************************************)

\* C7: Decode writes exactly width * height samples to its output for every
\* encoded_height >= height.
C7_DecodeWritesWidthTimesHeight ==
    (dOut.called /\ ~dOut.error /\ dIn.c.eh >= dIn.height)
    => Len(dOut.written) = dIn.width * dIn.height

\* C8: Decode returns 0 and writes nothing when bitsOffset or refsOffset is
\* past the end of the input, when encodedWidth is smaller than width or
\* when encodedWidth is not a multiple of 64; otherwise it returns the
\* number of samples it wrote.
C8_DecodeReturn ==
    dOut.called =>
        LET input == DecodeInput
            len == Len(input)
            le32(at) == input[at + 1] + 256 * input[at + 2]
                        + 65536 * input[at + 3] + 16777216 * input[at + 4]
            encodedWidth == le32(0)
            bitsOffset == le32(8)
            refsOffset == le32(12)
            rejected == \/ bitsOffset > len
                        \/ refsOffset > len
                        \/ encodedWidth < dIn.width
                        \/ encodedWidth % 64 # 0
        IN  /\ rejected => dOut.ret = 0 /\ dOut.written = <<>>
            /\ ~rejected => dOut.ret = Len(dOut.written)

\* C12: decoding one 64x4 frame whose four blocks have bits 8 and reference
\* 0 and hold the bytes 0x00..0x3F yields an output whose sample at row r,
\* column c is (c * 4 + r) mod 256.
C12_RampFrameRowColumn ==
    (dOut.called /\ dIn \in DecodeRamp)
    => /\ Len(dOut.written) = 64 * 4
       /\ \A r \in 0..3, c \in 0..63 :
             dOut.written[r * 64 + c + 1] = (c * 4 + r) % 256

C14_TileMetadataEntries ==
    (dOut.called /\ ~dOut.error)
    => LET tileCols == dIn.c.ew \div 64
           tileRows == (dIn.c.eh + 3) \div 4
       IN  \A ty \in 0..(tileRows - 1), tx \in 0..(tileCols - 1) :
              LET n == ty * tileCols + tx
                  t == dOut.tiles[n + 1]
              IN  /\ t.metadataIdx = 4 * n
                  /\ \A k \in 0..3 :
                        /\ 4 * n + k < dOut.bits.size
                           => t.blockBits[k + 1] = dOut.bits.data[4 * n + k + 1]
                        /\ 4 * n + k < dOut.refs.size
                           => t.blockRef[k + 1] = dOut.refs.data[4 * n + k + 1]

\* C14 witness: the fourth tile of a frame of 2x2 tiles was decoded with the
\* entries 12..15, which differ from the entries 0..3 of the first tile.
C14_Witness ==
    /\ dOut.called
    /\ ~dOut.error
    /\ ~dOut.ub
    /\ dIn.c.ew = 128
    /\ dIn.c.eh = 8
    /\ Len(dOut.tiles) = 4
    /\ dOut.tiles[4].metadataIdx = 12
    /\ dOut.tiles[4].blockBits = SubSeq(dOut.bits.data, 13, 16)
    /\ dOut.tiles[4].blockBits # dOut.tiles[1].blockBits
    /\ dOut.tiles[4].blockRef # dOut.tiles[1].blockRef

\* C16: when offset + bytes_for(bits) > len, DecodeBlock reads no input
\* byte, leaves the 64-element output block unchanged and returns len -
\* offset, so that the caller's offset becomes len; in every call sequence
\* made by Decode and DecodeMetadata the running offset never exceeds len
\* and no byte at an index >= len is read.
C16_TruncationStaysInBounds ==
    dOut.called
    => LET len == Len(DecodeInput)
           bytes(bits) == CASE bits <= 6 -> 8 * bits
                            [] bits \in {7, 8} -> 64
                            [] bits \in {9, 10} -> 80
                            [] OTHER -> 128
           before(n, k) == IF n = 1 THEN [i \in 1..64 |-> dIn.j]
                           ELSE dOut.tiles[n - 1].p[k]
       IN  /\ ~dOut.oob
           /\ ~dOut.over
           /\ \A n \in 1..Len(dOut.tiles), k \in 1..4 :
                 LET t == dOut.tiles[n] IN
                 t.offsets[k] + bytes(t.blockBits[k]) > len
                 => /\ t.offsets[k + 1] = len
                    /\ t.p[k] = before(n, k)

\* C25: Decode never reads the decoded bits or refs arrays at an index >=
\* their length: for every payload that passes the header checks, each index
\* metadataIdx .. metadataIdx+3 used for a tile is below the num_blocks of
\* the bits stream and below the num_blocks of the refs stream.
C25_MetadataIndexInRange ==
    (dOut.called /\ ~dOut.error)
    => \A n \in 1..Len(dOut.tiles) :
          /\ dOut.tiles[n].metadataIdx + 3 < dOut.bits.size
          /\ dOut.tiles[n].metadataIdx + 3 < dOut.refs.size

\* C8 witness: Decode was called with an encodedWidth of 65 and a non-empty
\* image and returned 0.
C8_Witness ==
    /\ dOut.called
    /\ dIn.c.ew = 65
    /\ dIn.c.eh > 0
    /\ dIn.width > 0
    /\ dOut.ret = 0

(***************************************************************************)
(* Properties of DecodeBlock, checked under SpecBlock.                     *)
(***************************************************************************)

\* C15: when enough input remains, DecodeBlock consumes 0, 8, 16, 24, 32,
\* 40, 48, 64, 80, 128 bytes for bits = 0, 1, 2, 3, 4, 5, 6, 8, 10, 16; bits
\* = 7 is decoded and counted as the 8-bit variant, bits = 9 as the 10-bit
\* variant and every bits >= 11 as the 16-bit variant; with bits = 0 it
\* writes exactly 64 zeros.
C15_BlockBytesConsumed ==
    dOut.called
    => LET bits == dIn.bits
           bytes == CASE bits <= 6 -> 8 * bits
                      [] bits \in {7, 8} -> 64
                      [] bits \in {9, 10} -> 80
                      [] OTHER -> 128
           in(i) == BlockByte(dIn.pat, dIn.offset + i + 1)
           field(x, shift, m) == (x \div (2 ^ shift)) % m
           variant8(k) == in(k)
           variant10(k) ==
               LET r == k \div 8
                   i == k % 8
               IN  IF r < 4 THEN in(8 * r + i) + 256 * field(in(32 + i), 2 * r, 4)
                   ELSE in(8 * (r + 1) + i)
                        + 256 * field(in(72 + i), 2 * (r - 4), 4)
           variant16(k) == in(2 * k) + 256 * in(2 * k + 1)
       IN  dIn.n >= bytes
           => /\ dOut.ret = bytes
              /\ bits = 0 => dOut.output = [k \in 1..64 |-> 0]
              /\ bits = 7 => dOut.output = [k \in 1..64 |-> variant8(k - 1)]
              /\ bits = 9 => dOut.output = [k \in 1..64 |-> variant10(k - 1)]
              /\ bits >= 11 => dOut.output = [k \in 1..64 |-> variant16(k - 1)]

\* C17: for bits in {1, 2, 3, 4, 5, 6, 8, 10, 16} and an input block of the
\* matching length, the 64 values DecodeBlock writes are those of the packing
\* rule of the format for that variant: out[8r + i] is row r, column i, and
\* p(k) is byte i of the k-th 8-byte chunk of the block.
C17_BlockPackingRule ==
    (/\ dOut.called
     /\ dIn.bits \in {1, 2, 3, 4, 5, 6, 8, 10, 16}
     /\ dIn.n = (IF dIn.bits = 16 THEN 128 ELSE 8 * dIn.bits))
    => \A r \in 0..7, i \in 0..7 :
          LET bits == dIn.bits
              in(x) == BlockByte(dIn.pat, dIn.offset + x + 1)
              p(k) == in(8 * k + i)
              f(x, shift, m) == (x \div (2 ^ shift)) % m
              rule ==
                CASE bits = 1 -> f(p(0), r, 2)
                  [] bits = 2 -> f(p(r \div 4), 2 * (r % 4), 4)
                  [] bits = 3 ->
                     (CASE r = 0 -> f(p(0), 0, 8)
                       [] r = 1 -> f(p(0), 3, 8)
                       [] r = 2 -> f(p(0), 6, 4) + 4 * f(p(2), 6, 2)
                       [] r = 3 -> f(p(1), 0, 8)
                       [] r = 4 -> f(p(1), 3, 8)
                       [] r = 5 -> f(p(1), 6, 4) + 4 * f(p(2), 7, 2)
                       [] r = 6 -> f(p(2), 0, 8)
                       [] r = 7 -> f(p(2), 3, 8))
                  [] bits = 4 -> f(p(r \div 2), 4 * (r % 2), 16)
                  [] bits = 5 ->
                     (CASE r <= 4 -> f(p(r), 0, 32)
                       [] r = 5 -> f(p(0), 5, 8) + 8 * f(p(3), 5, 4)
                       [] r = 6 -> f(p(1), 5, 8) + 8 * f(p(4), 5, 4)
                       [] r = 7 -> f(p(2), 5, 8) + 8 * f(p(3), 7, 2)
                                   + 16 * f(p(4), 7, 2))
                  [] bits = 6 ->
                     (CASE r <= 5 -> f(p(r), 0, 64)
                       [] r = 6 -> f(p(0), 6, 4) + 4 * f(p(1), 6, 4)
                                   + 16 * f(p(2), 6, 4)
                       [] r = 7 -> f(p(3), 6, 4) + 4 * f(p(4), 6, 4)
                                   + 16 * f(p(5), 6, 4))
                  [] bits = 8 -> p(r)
                  [] bits = 10 ->
                     IF r < 4 THEN p(r) + 256 * f(p(4), 2 * r, 4)
                     ELSE p(r + 1) + 256 * f(p(9), 2 * (r - 4), 4)
                  [] bits = 16 -> in(16 * r + 2 * i) + 256 * in(16 * r + 2 * i + 1)
          IN  dOut.output[8 * r + i + 1] = rule

\* C26: the scalar DecodeBlock (src/lib/Decoder.cpp) and the SIMD
\* DecodeBlock (src/lib/RawData.cpp) are equivalent: for every bits in
\* 0..16, every input buffer, offset and len, both write the same 64 output
\* values and return the same consumed byte count.
C26_ScalarEqualsSimd ==
    (dOut.called /\ dIn.codec = "Decoder" /\ dIn.bits <= 16)
    => LET simd == DecodeBlock("RawData", BlockOld, dIn.bits, BlockInput,
                               dIn.offset, Len(BlockInput), dIn.j)
       IN  /\ dOut.ret = simd.ret
           /\ dOut.output = simd.output

(***************************************************************************)
(* Properties of DecodeMetadata, checked under SpecMetadata.               *)
(***************************************************************************)

\* C18: DecodeMetadata reads num_blocks as 4 little-endian bytes, then for
\* each group of 64 values a 2-byte header with bits = high nibble of byte 0
\* and reference = (low nibble of byte 0) * 256 + byte 1, decodes one block
\* with that bits value and adds reference (mod 2^16) to each of its 64
\* values; it returns the input offset after the last block.  A single
\* block with bits 0 and reference R yields 64 copies of R.  Stated for the
\* streams that hold every block in full.
C18_MetadataStream ==
    (dOut.called /\ dIn.cut = 0)
    => LET input == MetadataInput
           at(i) == input[i + 1]
           numBlocks == at(dIn.offset) + 256 * at(dIn.offset + 1)
                        + 65536 * at(dIn.offset + 2)
                        + 16777216 * at(dIn.offset + 3)
           groups == (numBlocks + 63) \div 64
           bytes(bits) == CASE bits <= 6 -> 8 * bits
                            [] bits \in {7, 8} -> 64
                            [] bits \in {9, 10} -> 80
                            [] OTHER -> 128
           \* the offset of the header of group g
           header[g \in 0..groups] ==
               IF g = 0 THEN dIn.offset + 4
               ELSE header[g - 1] + 2 + bytes(at(header[g - 1]) \div 16)
           bits(g) == at(header[g]) \div 16
           reference(g) == (at(header[g]) % 16) * 256 + at(header[g] + 1)
           block(g) == DecodeSwitch(bits(g), input, header[g] + 2, dIn.j)
       IN  /\ dOut.size = numBlocks
           /\ Len(dOut.data) = 64 * groups
           /\ \A g \in 0..(groups - 1), k \in 1..64 :
                 dOut.data[64 * g + k] = (block(g)[k] + reference(g)) % 65536
           /\ dOut.offset = header[groups]
           /\ (groups = 1 /\ bits(0) = 0)
              => \A k \in 1..64 : dOut.data[k] = reference(0)

\* C24: DecodeMetadata writes only inside the output array it sized to
\* num_blocks elements, also when num_blocks is not a multiple of 64: no
\* element at an index >= num_blocks is written.
C24_MetadataWritesInside ==
    dOut.called => Len(dOut.data) <= dOut.size

(***************************************************************************)
(* Properties of the FUSE example, checked under SpecFuse.                 *)
(***************************************************************************)
\* C21: the frame cache is bounded: under any interleaving of fs_read
\* calls the cache map never holds more than MAX_CACHE_FRAMES entries.
C21_CacheBounded ==
    Cardinality(DOMAIN frameCache) <= MAX_CACHE_FRAMES

\* C22: when load_frame returned 0 inside fs_read, the lookup that follows
\* finds the name: fs_read never returns -ENOENT after a successful
\* load_frame.
C22_LoadedIsFound ==
    \A t \in Threads : loaded[t] => returned[t] # "ENOENT"

\* C23: the cache evicts in least-recently-used order: when an insertion
\* evicts a frame, it is the cached frame whose last read (a hit of fs_read
\* or its insertion) is the oldest.
C23_EvictsLeastRecentlyUsed ==
    (evicted.happened /\ evicted.removed) => evicted.key = evicted.lru

\* C23, amended: the cache evicts in the order of insertion: the key an
\* insertion into a full cache removes is the key of the oldest insertion
\* that no eviction has retired yet, whatever was read since.
C23_EvictsOldestInsertion ==
    evicted.happened => evicted.key = evicted.oldest

\* C23 witness: an eviction has removed a frame that was not the least
\* recently read.
C23_Witness ==
    /\ evicted.happened
    /\ evicted.removed
    /\ evicted.key # evicted.lru

\* C29: the eviction queue holds exactly the keys of the cache map, each
\* exactly once, under any interleaving of fs_read calls.
C29_QueueIsCacheKeys ==
    /\ {frameCacheOrder[i] : i \in 1..Len(frameCacheOrder)} = DOMAIN frameCache
    /\ Len(frameCacheOrder) = Cardinality(DOMAIN frameCache)

\* The thread waits in the constructor of a lock_guard.
Blocked(t) == pc[t] \in LockLabels /\ mutex[Wants(pc[t])] # NoThread

\* The thread is in a call, and following the holders of the mutexes
\* waited for, from t on and over at most n threads, ends at a thread that
\* is in a call and does not wait.
RECURSIVE Proceeds(_, _)
Proceeds(t, n) ==
    /\ n > 0
    /\ t \in Threads
    /\ pc[t] \notin {"idle", "exit", "fuse_main", "off"}
    /\ Blocked(t) => Proceeds(mutex[Wants(pc[t])], n - 1)

\* C30: the example is free of deadlock: under any interleaving of fs_read
\* and fs_getattr calls, a thread that waits for frameCacheMutex,
\* frameSizeMutex or decoderMutex waits for a thread that goes on, and a
\* mutex is held only by a thread inside a call.
C30_NoDeadlock ==
    /\ \A t \in Threads : pc[t] \in LockLabels => Proceeds(t, Cardinality(Threads))
    /\ \A m \in Mutexes : mutex[m] # NoThread => Proceeds(mutex[m], Cardinality(Threads))

\* C30 witness: fs_getattr waits for frameSizeMutex, which a fs_read holds.
C30_Witness ==
    /\ pc["other"] = "ga_lock"
    /\ mutex["frameSizeMutex"] = "player"
====
